---- MODULE Spec2Model ----
(***************************************************************************)
(* Landscaping & Mowing Manager: the SQLite store of db.py and the         *)
(* Streamlit pages of app.py / modules/*.py, as a state machine.           *)
(*                                                                         *)
(* Representation                                                          *)
(*   - a table is a set of rows (records); AUTOINCREMENT keeps, per table, *)
(*     the largest id ever handed out (db.seq), so ids are never reused;   *)
(*   - SQL NULL / Python None of an integer column is NULL (ids start at   *)
(*     1, so NULL equals no id);                                           *)
(*   - a text is a sequence of tokens, the token " " standing for white    *)
(*     space: str.strip() removes the leading and trailing " " tokens;     *)
(*   - money (REAL) is counted in thousandths of a dollar, so that the     *)
(*     1.3 markup and the 0.95 realisation of init_db stay exact;          *)
(*   - an ISO date 'YYYY-MM-DD' is the number YYYYMMDD: the order of the   *)
(*     strings is the order of the numbers and substr(date,1,4) the year.  *)
(*   - columns no modelled decision reads (address, city, state, zip,      *)
(*     frequency, notes, provider, time of day, timestamps other than      *)
(*     last_reminder_at) are left out of the rows.                         *)
(***************************************************************************)
EXTENDS Integers, Sequences, FiniteSets, TLC

VARIABLES db, session, lastOp, ops

vars == <<db, session, lastOp, ops>>

(***************************************************************************)
(* Bounds of the model                                                     *)
(***************************************************************************)
\* how many of the ten sample_props init_db seeds
NumSampleProps == 2
\* how many of the six standard_services init_db seeds per property
NumStandardServices == 2
\* how many data-changing clicks a behaviour holds
MaxOps == 2
\* browser sessions
NumSessions == 2
\* quotes a caller of db.add_quote stores
MaxQuotes == 1

Sessions == 1..NumSessions

(***************************************************************************)
(* Values                                                                  *)
(***************************************************************************)
NULL == 0

MilliPerDollar == 1000

Dollars(n) == n * MilliPerDollar

MkDate(y, m, d) == y * 10000 + m * 100 + d

\* datetime.date.today() / pd.Timestamp.today(): the day the behaviour plays on
Today == 20260615

YearOf(date) == date \div 10000

CurrentYear == YearOf(Today)

\* " " is white space, every other token a run of non-blank characters
strip_left(t) ==
    LET F[i \in 1..(Len(t) + 1)] ==
            IF i > Len(t) THEN <<>>
            ELSE IF t[i] = " " THEN F[i + 1]
            ELSE SubSeq(t, i, Len(t))
    IN F[1]

Reverse(t) == [i \in 1..Len(t) |-> t[Len(t) + 1 - i]]

strip(t) == Reverse(strip_left(Reverse(strip_left(t))))

\* sum of f[x] over a finite set
RECURSIVE SumOver(_, _)
SumOver(S, f) ==
    IF S = {} THEN 0
    ELSE LET x == CHOOSE y \in S : TRUE
         IN f[x] + SumOver(S \ {x}, f)

\* the rows of a table in rowid order
RECURSIVE ById(_)
ById(rows) ==
    IF rows = {} THEN <<>>
    ELSE LET r == CHOOSE x \in rows : \A y \in rows : x.id <= y.id
         IN <<r>> \o ById(rows \ {r})

Max(a, b) == IF a >= b THEN a ELSE b

(***************************************************************************)
(* The store: tables, AUTOINCREMENT counters                               *)
(***************************************************************************)
Tables ==
    {"users", "properties", "property_services", "service_events", "tickets",
     "ticket_attachments", "quotes", "quote_line_items", "price_master"}

\* the database file before the first init_db: every table empty
EmptyDb ==
    [users |-> {}, properties |-> {}, property_services |-> {},
     service_events |-> {}, tickets |-> {}, ticket_attachments |-> {},
     quotes |-> {}, quote_line_items |-> {}, price_master |-> {},
     seq |-> [t \in Tables |-> 0]]

\* cur.lastrowid of the last INSERT INTO t
lastrowid(d, t) == d.seq[t]

\* INSERT INTO t: the row gets the next AUTOINCREMENT id
Insert(d, t, row) ==
    LET n == d.seq[t] + 1
    IN [d EXCEPT ![t] = @ \cup {[id |-> n] @@ row}, !.seq[t] = n]

RECURSIVE InsertAll(_, _, _)
InsertAll(d, t, rows) ==
    IF rows = <<>> THEN d
    ELSE InsertAll(Insert(d, t, Head(rows)), t, Tail(rows))

(***************************************************************************)
(* init_db: CREATE TABLE IF NOT EXISTS, then "seed data if needed"         *)
(***************************************************************************)
sample_props ==
    << <<"Oakridge Villas">>, <<"Maple Heights">>, <<"Cedar Grove Business Park">>,
       <<"Lakeview Estates">>, <<"Willow Creek Offices">>, <<"Sunset Ridge Center">>,
       <<"Pine Meadows Plaza">>, <<"Brookstone Park">>, <<"Heritage Oaks Campus">>,
       <<"Stonebridge Court">> >>

standard_services ==
    << [code |-> "WEED_CONTROL", name |-> <<"Weed Control Spraying">>, times |-> 3],
       [code |-> "MOWING", name |-> <<"Mowing">>, times |-> 22],
       [code |-> "BLOWING", name |-> <<"Blowing & Trash Cleanup">>, times |-> 22],
       [code |-> "FERTILIZER", name |-> <<"Fertilizer">>, times |-> 5],
       [code |-> "TREE_SHRUB", name |-> <<"Tree & Shrub Care">>, times |-> 2],
       [code |-> "MULCH", name |-> <<"Mulch">>, times |-> 2] >>

region_rates ==
    [WEED_CONTROL |-> Dollars(85), MOWING |-> Dollars(60), BLOWING |-> Dollars(15),
     FERTILIZER |-> Dollars(80), TREE_SHRUB |-> Dollars(120), MULCH |-> Dollars(600)]

\* the part of the seed lists the model seeds
SeededProps == SubSeq(sample_props, 1, NumSampleProps)

SeededServices == SubSeq(standard_services, 1, NumStandardServices)

\* f"owner{idx}"
owner_username(idx) == <<"owner" \o ToString(idx)>>

\* "Seed users": the admin, when the table is empty
seed_users(d) ==
    IF d.users = {}
    THEN Insert(d, "users",
                [username |-> <<"admin">>, password |-> <<"admin123">>,
                 role |-> "admin", property_id |-> NULL])
    ELSE d

\* "Seed properties if none"
seed_properties(d) ==
    IF d.properties = {}
    THEN InsertAll(d, "properties",
                   [i \in 1..Len(SeededProps) |->
                       [name |-> SeededProps[i], annual_quote |-> 0,
                        annual_credited |-> 0, annual_cost |-> 0]])
    ELSE d

\* "Seed owners mapped to properties if none"
seed_owners(d) ==
    IF {u \in d.users : u.role = "owner"} = {}
    THEN LET props == ById(d.properties)
         IN InsertAll(d, "users",
                      [i \in 1..Len(props) |->
                          [username |-> owner_username(i), password |-> <<"owner123">>,
                           role |-> "owner", property_id |-> props[i].id]])
    ELSE d

\* "Seed price master with generic entries"
price_rows ==
    << [category |-> <<"Weed Control Spraying">>, frequency |-> <<"3 Times / Year">>,
        default_cost |-> Dollars(85)],
       [category |-> <<"Mowing">>, frequency |-> <<"Weekly (22 Visits)">>,
        default_cost |-> Dollars(60)],
       [category |-> <<"Blowing & Trash Cleanup">>, frequency |-> <<"Weekly (22 Visits)">>,
        default_cost |-> Dollars(15)],
       [category |-> <<"Fertilizer">>, frequency |-> <<"5 Times / Year">>,
        default_cost |-> Dollars(80)],
       [category |-> <<"Tree & Shrub Care">>, frequency |-> <<"Twice / Year">>,
        default_cost |-> Dollars(120)],
       [category |-> <<"Mulch">>, frequency |-> <<"Every 6 Months">>,
        default_cost |-> Dollars(600)] >>

\* the part of price_rows the model seeds: the entries of the seeded services
SeededPrices == SubSeq(price_rows, 1, NumStandardServices)

\* seed_price_from without the SELECT that looks for the entry first
RECURSIVE seed_price_always(_, _)
seed_price_always(d, rows) ==
    IF rows = <<>> THEN d
    ELSE seed_price_always(Insert(d, "price_master", Head(rows)), Tail(rows))

\* an entry is inserted when no row has its category and frequency
RECURSIVE seed_price_from(_, _)
seed_price_from(d, rows) ==
    IF rows = <<>> THEN d
    ELSE LET r == Head(rows)
             d1 == IF {e \in d.price_master :
                          e.category = r.category /\ e.frequency = r.frequency} = {}
                   THEN Insert(d, "price_master", r)
                   ELSE d
         IN seed_price_from(d1, Tail(rows))

seed_price_master(d) == seed_price_from(d, SeededPrices)

\* "Seed property services for each property if it has none"
RECURSIVE seed_services_from(_, _)
seed_services_from(d, props) ==
    IF props = <<>> THEN d
    ELSE LET p == Head(props)
             d1 == IF {s \in d.property_services : s.property_id = p.id} = {}
                   THEN InsertAll(d, "property_services",
                                  [i \in 1..Len(SeededServices) |->
                                      [property_id |-> p.id,
                                       category |-> SeededServices[i].name,
                                       times_per_year |-> SeededServices[i].times,
                                       each_time_cost |-> region_rates[SeededServices[i].code]]])
                   ELSE d
         IN seed_services_from(d1, Tail(props))

seed_property_services(d) == seed_services_from(d, ById(d.properties))

\* annual_cost * 1.3 ("30% markup") and annual_quote * 0.95 ("95% realization")
markup(cost) == (cost * 13) \div 10

realization(quote) == (quote * 95) \div 100

\* the update applied only to properties whose annual_cost was never set
update_annuals_if_unset(d) ==
    LET costOf(pid) ==
            LET svcs == {s \in d.property_services : s.property_id = pid}
            IN SumOver(svcs, [s \in svcs |-> s.times_per_year * s.each_time_cost])
        updated(p) ==
            IF p.annual_cost # 0 THEN p
            ELSE [p EXCEPT !.annual_cost = costOf(p.id),
                           !.annual_quote = markup(costOf(p.id)),
                           !.annual_credited = realization(markup(costOf(p.id)))]
    IN [d EXCEPT !.properties = {updated(p) : p \in @}]

\* "Update annual cost / quote / credited for each property"
update_annuals(d) ==
    LET costOf(pid) ==
            LET svcs == {s \in d.property_services : s.property_id = pid}
            IN SumOver(svcs, [s \in svcs |-> s.times_per_year * s.each_time_cost])
        updated(p) ==
            LET annual_cost == costOf(p.id)
                annual_quote == markup(annual_cost)
                annual_credited == realization(annual_quote)
            IN [p EXCEPT !.annual_cost = annual_cost,
                         !.annual_quote = annual_quote,
                         !.annual_credited = annual_credited]
    IN [d EXCEPT !.properties = {updated(p) : p \in @}]

\* an event row as init_db inserts it (followup_required DEFAULT 0, reminder NULL)
seeded_event(pid, sid, date, status) ==
    [property_id |-> pid, service_id |-> sid, service_category |-> <<"Mowing">>,
     scheduled_date |-> date, status |-> status,
     followup_required |-> FALSE, last_reminder_at |-> NULL]

\* "Seed some service events for current year": per property with a Mowing
\* service, three Completed visits and one Scheduled
RECURSIVE seed_events_from(_, _)
seed_events_from(d, props) ==
    IF props = <<>> THEN d
    ELSE LET pid == Head(props).id
             mowing == ById({s \in d.property_services :
                                s.property_id = pid /\ s.category = <<"Mowing">>})
             d1 == IF mowing # <<>>
                   THEN InsertAll(d, "service_events",
                            [i \in 1..3 |->
                                seeded_event(pid, mowing[1].id,
                                             MkDate(CurrentYear, 4, 10 + (i - 1)),
                                             "Completed")]
                            \o <<seeded_event(pid, mowing[1].id,
                                              MkDate(CurrentYear, 5, 1), "Scheduled")>>)
                   ELSE d
         IN seed_events_from(d1, Tail(props))

seed_service_events(d) ==
    IF d.service_events = {} THEN seed_events_from(d, ById(d.properties)) ELSE d

\* the "#{idx}" of a seeded ticket's subject
seed_ticket_no(idx) == "#" \o ToString(idx)

\* "Seed a couple of tickets": one per property for the first two properties
seed_tickets(d) ==
    IF d.tickets = {}
    THEN LET props == SubSeq(ById(d.properties), 1,
                             IF Cardinality(d.properties) < 2
                             THEN Cardinality(d.properties) ELSE 2)
             ownerOf(pid) ==
                 LET os == ById({u \in d.users :
                                    u.role = "owner" /\ u.property_id = pid})
                 IN IF os = <<>> THEN NULL ELSE os[1].id
         IN InsertAll(d, "tickets",
                [i \in 1..Len(props) |->
                    [property_id |-> props[i].id,
                     owner_id |-> ownerOf(props[i].id),
                     created_by_user_id |->
                         IF ownerOf(props[i].id) # NULL
                         THEN ownerOf(props[i].id) ELSE 1,
                     subject |-> <<"Irrigation", "concern", seed_ticket_no(i)>>,
                     description |-> <<"Noticed dry patches">>,
                     status |-> "Open", priority |-> "Medium"]])
    ELSE d

init_db(d) ==
    seed_tickets(
      seed_service_events(
        update_annuals(
          seed_property_services(
            seed_price_master(
              seed_owners(
                seed_properties(
                  seed_users(d))))))))


(***************************************************************************)
(* Queries of db.py                                                        *)
(***************************************************************************)
\* Python's sum() over a list of numbers
RECURSIVE sum(_)
sum(xs) == IF xs = <<>> THEN 0 ELSE Head(xs) + sum(Tail(xs))

\* SELECT * FROM users WHERE username = ?  (username is UNIQUE)
get_user_by_username(d, username) ==
    {u \in d.users : u.username = username}

\* SELECT * FROM properties WHERE id = ?
get_property_by_id(d, property_id) ==
    {p \in d.properties : p.id = property_id}

\* SELECT * FROM property_services WHERE property_id = ?
get_services_for_property(d, property_id) ==
    ById({s \in d.property_services : s.property_id = property_id})

\* SELECT * FROM service_events WHERE property_id = ?
get_events_for_property(d, property_id) ==
    ById({e \in d.service_events : e.property_id = property_id})

\* SUM(CASE WHEN status = st THEN 1 ELSE 0 END) over the selected rows: NULL
\* when no row is selected
sum_case_status(rows, st) ==
    IF rows = {} THEN NULL
    ELSE SumOver(rows, [r \in rows |-> IF r.status = st THEN 1 ELSE 0])

\* Python's "x or 0"
or_zero(x) == IF x = NULL THEN 0 ELSE x

\* fulfilment_row without "AND substr(e.scheduled_date, 1, 4) = ?": events of
\* every year are counted
fulfilment_row_any_year(d, property_id, year, s) ==
    LET planned == or_zero(s.times_per_year)
        rows == {e \in d.service_events :
                    e.property_id = property_id /\ e.service_id = s.id}
        completed == or_zero(sum_case_status(rows, "Completed"))
        scheduled == or_zero(sum_case_status(rows, "Scheduled"))
        pending == Max(planned - completed, 0)
    IN [service_id |-> s.id, category |-> s.category, times_per_year |-> planned,
        completed_count |-> completed, pending_count |-> pending,
        scheduled_count |-> scheduled]

\* one row of get_service_fulfilment_for_property, for the service row s
fulfilment_row(d, property_id, year, s) ==
    LET planned == or_zero(s.times_per_year)
        rows == {e \in d.service_events :
                    /\ e.property_id = property_id
                    /\ e.service_id = s.id
                    /\ YearOf(e.scheduled_date) = year}
        completed == or_zero(sum_case_status(rows, "Completed"))
        scheduled == or_zero(sum_case_status(rows, "Scheduled"))
        pending == Max(planned - completed, 0)
    IN [service_id |-> s.id, category |-> s.category, times_per_year |-> planned,
        completed_count |-> completed, pending_count |-> pending,
        scheduled_count |-> scheduled]

get_service_fulfilment_for_property(d, property_id, year) ==
    LET services == get_services_for_property(d, property_id)
    IN [i \in 1..Len(services) |-> fulfilment_row(d, property_id, year, services[i])]

\* portfolio_status that takes a property for on track only when the
\* completed visits are exactly the planned ones
portfolio_status_exact(total_planned, total_completed, total_pending) ==
    IF total_planned = 0 THEN "Not configured"
    ELSE IF total_completed = total_planned THEN "On Track"
    ELSE IF total_completed = 0 THEN "Not Started"
    ELSE "In Progress"

\* the status of a portfolio row
portfolio_status(total_planned, total_completed, total_pending) ==
    IF total_planned = 0 THEN "Not configured"
    ELSE IF total_pending = 0 THEN "On Track"
    ELSE IF total_completed = 0 THEN "Not Started"
    ELSE "In Progress"

\* portfolio_row with the completed total counted from the property's events
\* of the year rather than summed over the per-service rows
portfolio_row_from_events(d, p, year) ==
    LET pf == get_service_fulfilment_for_property(d, p.id, year)
        total_planned == sum([i \in 1..Len(pf) |-> or_zero(pf[i].times_per_year)])
        total_completed ==
            Cardinality({e \in d.service_events :
                            /\ e.property_id = p.id
                            /\ YearOf(e.scheduled_date) = year
                            /\ e.status = "Completed"})
        total_pending == Max(total_planned - total_completed, 0)
    IN [property_id |-> p.id, property_name |-> p.name,
        planned |-> total_planned, completed |-> total_completed,
        pending |-> total_pending,
        status |-> portfolio_status(total_planned, total_completed, total_pending)]

\* one row of get_portfolio_fulfilment, for the property row p
portfolio_row(d, p, year) ==
    LET pf == get_service_fulfilment_for_property(d, p.id, year)
        total_planned == sum([i \in 1..Len(pf) |-> or_zero(pf[i].times_per_year)])
        total_completed == sum([i \in 1..Len(pf) |-> or_zero(pf[i].completed_count)])
        total_pending == Max(total_planned - total_completed, 0)
    IN [property_id |-> p.id, property_name |-> p.name,
        planned |-> total_planned, completed |-> total_completed,
        pending |-> total_pending,
        status |-> portfolio_status(total_planned, total_completed, total_pending)]

get_portfolio_fulfilment(d, year) ==
    LET props == ById(d.properties)
    IN [i \in 1..Len(props) |-> portfolio_row(d, props[i], year)]

\* count_overdue_events counting the events scheduled up to and including
\* today
count_overdue_events_through_today(d, today_iso) ==
    Cardinality({e \in d.service_events :
                    e.status = "Scheduled" /\ e.scheduled_date <= today_iso})

\* SELECT COUNT(*) FROM service_events WHERE status = 'Scheduled' AND
\* scheduled_date < ?  (ISO dates compare as texts the way the days do)
count_overdue_events(d, today_iso) ==
    Cardinality({e \in d.service_events :
                    e.status = "Scheduled" /\ e.scheduled_date < today_iso})

\* the Module Health Overview of the admin dashboard: the count of today and
\* the label under it
overdue_metric(d) ==
    LET overdue_events == count_overdue_events(d, Today)
    IN [value |-> overdue_events,
        status_e |-> IF overdue_events = 0 THEN "OK" ELSE "Overdue"]

\* "Compute due state" of app_with_evt_nav.admin_event_scheduler
due_state(e, today_str) ==
    IF e.status # "Scheduled" THEN e.status
    ELSE IF e.scheduled_date < today_str THEN "Overdue"
    ELSE IF e.scheduled_date = today_str THEN "Due today"
    ELSE "Upcoming"


(***************************************************************************)
(* Writes of db.py                                                         *)
(***************************************************************************)
add_property(d, name, annual_quote, annual_credited, annual_cost) ==
    Insert(d, "properties",
           [name |-> name, annual_quote |-> annual_quote,
            annual_credited |-> annual_credited, annual_cost |-> annual_cost])

update_property(d, property_id, name, annual_quote, annual_credited, annual_cost) ==
    [d EXCEPT !.properties =
        {IF p.id = property_id
         THEN [p EXCEPT !.name = name, !.annual_quote = annual_quote,
                        !.annual_credited = annual_credited,
                        !.annual_cost = annual_cost]
         ELSE p : p \in @}]

add_property_service(d, property_id, category, times_per_year, each_time_cost) ==
    Insert(d, "property_services",
           [property_id |-> property_id, category |-> category,
            times_per_year |-> times_per_year, each_time_cost |-> each_time_cost])

update_property_service(d, service_id, category, times_per_year, each_time_cost) ==
    [d EXCEPT !.property_services =
        {IF sv.id = service_id
         THEN [sv EXCEPT !.category = category, !.times_per_year = times_per_year,
                         !.each_time_cost = each_time_cost]
         ELSE sv : sv \in @}]

delete_property_service(d, service_id) ==
    [d EXCEPT !.property_services = {sv \in @ : sv.id # service_id}]

\* the new event is 'Scheduled', its last_reminder_at NULL
\* add_service_event that files the event as already 'Completed'
add_service_event_completed(d, property_id, service_id, service_category, scheduled_date, followup_required) ==
    Insert(d, "service_events",
           [property_id |-> property_id, service_id |-> service_id,
            service_category |-> service_category,
            scheduled_date |-> scheduled_date, status |-> "Completed",
            followup_required |-> followup_required, last_reminder_at |-> NULL])

add_service_event(d, property_id, service_id, service_category, scheduled_date, followup_required) ==
    Insert(d, "service_events",
           [property_id |-> property_id, service_id |-> service_id,
            service_category |-> service_category,
            scheduled_date |-> scheduled_date, status |-> "Scheduled",
            followup_required |-> followup_required, last_reminder_at |-> NULL])

update_service_event_status(d, event_id, status, followup_required) ==
    [d EXCEPT !.service_events =
        {IF e.id = event_id
         THEN [e EXCEPT !.status = status, !.followup_required = followup_required]
         ELSE e : e \in @}]

\* touch_service_event_reminder that also puts the event back to 'Scheduled'
touch_and_reschedule(d, event_id) ==
    [d EXCEPT !.service_events =
        {IF e.id = event_id
         THEN [e EXCEPT !.last_reminder_at = Today, !.status = "Scheduled"]
         ELSE e : e \in @}]

\* last_reminder_at = now
touch_service_event_reminder(d, event_id) ==
    [d EXCEPT !.service_events =
        {IF e.id = event_id THEN [e EXCEPT !.last_reminder_at = Today] ELSE e
            : e \in @}]

delete_service_event(d, event_id) ==
    [d EXCEPT !.service_events = {e \in @ : e.id # event_id}]

\* add_ticket with a status outside the four values
add_ticket_as_new(d, property_id, owner_id, created_by_user_id, subject, description, priority) ==
    Insert(d, "tickets",
           [property_id |-> property_id, owner_id |-> owner_id,
            created_by_user_id |-> created_by_user_id, subject |-> subject,
            description |-> description, status |-> "New", priority |-> priority])

\* the new ticket is 'Open'
add_ticket(d, property_id, owner_id, created_by_user_id, subject, description, priority) ==
    Insert(d, "tickets",
           [property_id |-> property_id, owner_id |-> owner_id,
            created_by_user_id |-> created_by_user_id, subject |-> subject,
            description |-> description, status |-> "Open", priority |-> priority])

\* the pages always pass a description (never None), so the first UPDATE runs
update_ticket_status(d, ticket_id, status, priority, description) ==
    [d EXCEPT !.tickets =
        {IF t.id = ticket_id
         THEN [t EXCEPT !.status = status, !.priority = priority,
                        !.description = description]
         ELSE t : t \in @}]

add_ticket_attachment(d, ticket_id, filename) ==
    Insert(d, "ticket_attachments", [ticket_id |-> ticket_id, filename |-> filename])

\* the price master's writes
add_price_master_entry(d, category, frequency, default_cost) ==
    Insert(d, "price_master",
           [category |-> category, frequency |-> frequency,
            default_cost |-> default_cost])

update_price_master_entry(d, entry_id, category, frequency, default_cost) ==
    [d EXCEPT !.price_master =
        {IF e.id = entry_id
         THEN [e EXCEPT !.category = category, !.frequency = frequency,
                        !.default_cost = default_cost]
         ELSE e : e \in @}]

delete_price_master_entry(d, entry_id) ==
    [d EXCEPT !.price_master = {e \in @ : e.id # entry_id}]

(***************************************************************************)
(* Quotes                                                                  *)
(***************************************************************************)
\* a line item as add_quote stores it, for the quote quote_id
quote_item_row(quote_id, item) ==
    [quote_id |-> quote_id, service_code |-> item.service_code,
     service_name |-> item.service_name,
     times_per_year |-> or_zero(item.times_per_year),
     price_per_visit |-> or_zero(item.price_per_visit),
     annual_total |-> or_zero(item.annual_total),
     included |-> IF item.included THEN 1 ELSE 0]

\* INSERT INTO quotes, then one INSERT INTO quote_line_items per item
add_quote(d, property_name, annual_quote, line_items) ==
    LET d1 == Insert(d, "quotes",
                     [property_name |-> property_name, annual_quote |-> annual_quote])
        quote_id == lastrowid(d1, "quotes")
    IN InsertAll(d1, "quote_line_items",
                 [i \in 1..Len(line_items) |-> quote_item_row(quote_id, line_items[i])])

\* get_quote_with_items without "AND included = 1"
get_quote_with_all_items(d, quote_id) ==
    LET q_row == {q \in d.quotes : q.id = quote_id}
    IN IF q_row = {} THEN [quote |-> {}, items |-> <<>>]
       ELSE [quote |-> q_row,
             items |-> ById({li \in d.quote_line_items : li.quote_id = quote_id})]

\* the quote row (no row: the empty set) and its line items with included = 1
get_quote_with_items(d, quote_id) ==
    LET q_row == {q \in d.quotes : q.id = quote_id}
    IN IF q_row = {} THEN [quote |-> {}, items |-> <<>>]
       ELSE [quote |-> q_row,
             items |-> ById({li \in d.quote_line_items :
                                li.quote_id = quote_id /\ li.included = 1})]

\* Python's "text or fallback": None and '' are both false
text_or(t, fallback) == IF t = <<>> THEN fallback ELSE t

\* convert_quote_to_property without the "or not items" of its early return
convert_quote_without_items_check(d, quote_id) ==
    LET got == get_quote_with_items(d, quote_id)
    IN IF got.quote = {}
       THEN [db |-> d, ret |-> NULL]
       ELSE LET quote == CHOOSE q \in got.quote : TRUE
                prop_name == text_or(quote.property_name,
                                     <<"Quoted", "Property", "#" \o ToString(quote_id)>>)
                d1 == Insert(d, "properties",
                             [name |-> prop_name,
                              annual_quote |-> or_zero(quote.annual_quote),
                              annual_credited |-> 0, annual_cost |-> 0])
                property_id == lastrowid(d1, "properties")
                d2 == InsertAll(d1, "property_services",
                         [i \in 1..Len(got.items) |->
                             [property_id |-> property_id,
                              category |-> got.items[i].service_name,
                              times_per_year |-> or_zero(got.items[i].times_per_year),
                              each_time_cost |-> or_zero(got.items[i].price_per_visit)]])
            IN [db |-> d2, ret |-> property_id]

\* the new property and its services, and the id returned (None: NULL)
convert_quote_to_property(d, quote_id) ==
    LET got == get_quote_with_items(d, quote_id)
    IN IF got.quote = {} \/ got.items = <<>>
       THEN [db |-> d, ret |-> NULL]
       ELSE LET quote == CHOOSE q \in got.quote : TRUE
                prop_name == text_or(quote.property_name,
                                     <<"Quoted", "Property", "#" \o ToString(quote_id)>>)
                d1 == Insert(d, "properties",
                             [name |-> prop_name,
                              annual_quote |-> or_zero(quote.annual_quote),
                              annual_credited |-> 0, annual_cost |-> 0])
                property_id == lastrowid(d1, "properties")
                d2 == InsertAll(d1, "property_services",
                         [i \in 1..Len(got.items) |->
                             [property_id |-> property_id,
                              category |-> got.items[i].service_name,
                              times_per_year |-> or_zero(got.items[i].times_per_year),
                              each_time_cost |-> or_zero(got.items[i].price_per_visit)]])
            IN [db |-> d2, ret |-> property_id]


(***************************************************************************)
(* Streamlit: a click starts one run of main(), which calls init_db and    *)
(* then the page of the session's user; a button or form_submit_button     *)
(* returns True only in the run its click started; st.rerun() ends the run *)
(* and starts the next one, which calls init_db again.                     *)
(***************************************************************************)
NoUser ==
    [id |-> NULL, username |-> <<>>, password |-> <<>>, role |-> "none",
     property_id |-> NULL]

NoOp == [op |-> "none", user |-> NULL, id |-> NULL, arg |-> <<>>, wrote |-> FALSE]

Op(name, user, id, arg) ==
    [op |-> name, user |-> user.id, id |-> id, arg |-> arg, wrote |-> FALSE]

\* the run that st.rerun() starts: main() calls init_db before it renders
rerun(d) == init_db(d)

\* what a page hands back: the store, whether a db write was called
Outcome(d, wrote) == [db |-> d, wrote |-> wrote]

is_admin(user) == user # NoUser /\ user.role = "admin"

\* main(): every logged-in user whose role is not 'admin' gets owner_app
is_owner(user) == user # NoUser /\ user.role # "admin"

\* {p["name"]: p["id"] for p in properties}, properties ORDER BY name: of two
\* properties of one name the later row wins
name_to_id(d, name) ==
    LET ids == {p.id : p \in {q \in d.properties : q.name = name}}
    IN CHOOSE i \in ids : \A j \in ids : j <= i

(***************************************************************************)
(* modules/admin_properties.py                                             *)
(***************************************************************************)
\* "Save Property": the texts are stored as typed
save_property(d, selected_name, name, annual_quote, annual_credited, annual_cost) ==
    Outcome(rerun(update_property(d, name_to_id(d, selected_name), name,
                                  annual_quote, annual_credited, annual_cost)),
            TRUE)

\* "Save Service": editing is the id of the selected service, NULL for
\* "(New service)"
save_service(d, selected_name, editing, category, times_per_year, each_time_cost) ==
    IF strip(category) = <<>>
    THEN Outcome(d, FALSE)
    ELSE IF editing # NULL
    THEN Outcome(rerun(update_property_service(d, editing, strip(category),
                                               times_per_year, each_time_cost)),
                 TRUE)
    ELSE Outcome(rerun(add_property_service(d, name_to_id(d, selected_name),
                                            strip(category), times_per_year,
                                            each_time_cost)),
                 TRUE)

\* "Delete Service"
delete_service(d, editing) ==
    IF editing # NULL
    THEN Outcome(rerun(delete_property_service(d, editing)), TRUE)
    ELSE Outcome(d, FALSE)

\* "Add Property"
add_new_property(d, name, annual_quote, annual_credited, annual_cost) ==
    IF strip(name) = <<>>
    THEN Outcome(d, FALSE)
    ELSE Outcome(rerun(add_property(d, strip(name), annual_quote, annual_credited,
                                    annual_cost)),
                 TRUE)

(***************************************************************************)
(* modules/admin_price_master.py                                           *)
(***************************************************************************)
\* "Save" of the price form: editing is the id of the selected entry, NULL
\* for "(New entry)"
save_price_entry(d, editing, category, frequency, default_cost) ==
    IF strip(category) = <<>>
    THEN Outcome(d, FALSE)
    ELSE IF editing # NULL
    THEN Outcome(rerun(update_price_master_entry(d, editing, strip(category),
                                                 strip(frequency), default_cost)),
                 TRUE)
    ELSE Outcome(rerun(add_price_master_entry(d, strip(category), strip(frequency),
                                              default_cost)),
                 TRUE)

\* "Delete" of the price form
delete_price_entry(d, editing) ==
    IF editing # NULL
    THEN Outcome(rerun(delete_price_master_entry(d, editing)), TRUE)
    ELSE Outcome(d, FALSE)

(***************************************************************************)
(* modules/admin_events.py                                                 *)
(***************************************************************************)
\* "Create Event": service_id NULL is "(Ad-hoc)", whose category is typed
create_event(d, prop_name, service_id, adhoc_category, date, followup_required) ==
    LET property_id == name_to_id(d, prop_name)
        service_category ==
            IF service_id # NULL
            THEN (CHOOSE sv \in d.property_services : sv.id = service_id).category
            ELSE adhoc_category
    IN IF strip(service_category) = <<>>
       THEN Outcome(d, FALSE)
       ELSE Outcome(rerun(add_service_event(d, property_id, service_id,
                                            strip(service_category), date,
                                            followup_required)),
                    TRUE)

\* "Save Changes" of the event's form
save_event_changes(d, event_id, status, followup_required) ==
    Outcome(rerun(update_service_event_status(d, event_id, status,
                                              followup_required)),
            TRUE)

\* "Delete Event"
delete_event(d, event_id) ==
    Outcome(rerun(delete_service_event(d, event_id)), TRUE)

\* "Send Reminder (mark only)": no st.rerun()
send_reminder(d, event_id) ==
    Outcome(touch_service_event_reminder(d, event_id), TRUE)

(***************************************************************************)
(* modules/admin_tickets.py, modules/owner_tickets.py                      *)
(***************************************************************************)
\* the choices of the admin's Status selectbox
admin_ticket_statuses == {"Open", "In Progress", "Closed"}

priorities == {"Low", "Medium", "High"}

\* "Save Ticket Changes"
save_ticket_changes(d, ticket_id, new_status, new_priority, new_description) ==
    Outcome(rerun(update_ticket_status(d, ticket_id, new_status, new_priority,
                                       new_description)),
            TRUE)

\* 5 * 1024 * 1024
max_upload_bytes == 5 * 1024 * 1024

\* the file_uploader of a ticket, one file uploaded: a file over 5 MB is
\* skipped; st.rerun() follows either way.  The widget keeps its file, so the
\* run st.rerun() starts stores the row again: each such run is one more step
\* of the same upload.
upload_attachment(d, ticket_id, filename, size) ==
    IF size > max_upload_bytes
    THEN Outcome(rerun(d), FALSE)
    ELSE Outcome(rerun(add_ticket_attachment(d, ticket_id, filename)), TRUE)

\* submit_ticket testing the texts as typed, without .strip()
submit_ticket_unstripped(d, user, subject, description, priority) ==
    IF user.id = NULL \/ user.property_id = NULL
    THEN Outcome(d, FALSE)
    ELSE IF subject = <<>> \/ description = <<>>
    THEN Outcome(d, FALSE)
    ELSE Outcome(rerun(add_ticket(d, user.property_id, user.id, user.id,
                                  strip(subject), strip(description), priority)),
                 TRUE)

\* the owner's "Submit Ticket"
submit_ticket(d, user, subject, description, priority) ==
    IF user.id = NULL \/ user.property_id = NULL
    THEN Outcome(d, FALSE)
    ELSE IF strip(subject) = <<>> \/ strip(description) = <<>>
    THEN Outcome(d, FALSE)
    ELSE Outcome(rerun(add_ticket(d, user.property_id, user.id, user.id,
                                  strip(subject), strip(description), priority)),
                 TRUE)


\* get_tickets_for_owner with "WHERE t.property_id = ?" on the owner's id in
\* place of "WHERE t.owner_id = ?"
get_tickets_for_owner_by_property(d, owner_id) ==
    LET joined == {t \in d.tickets :
                      /\ t.property_id = owner_id
                      /\ \E p \in d.properties : p.id = t.property_id}
        rows == Reverse(ById(joined))
    IN [i \in 1..Len(rows) |->
           [ticket |-> rows[i],
            property_name |->
                (CHOOSE p \in d.properties : p.id = rows[i].property_id).name]]

\* SELECT t.*, p.name AS property_name FROM tickets t JOIN properties p
\* ON t.property_id = p.id WHERE t.owner_id = ?, newest first
get_tickets_for_owner(d, owner_id) ==
    LET joined == {t \in d.tickets :
                      /\ t.owner_id = owner_id
                      /\ \E p \in d.properties : p.id = t.property_id}
        rows == Reverse(ById(joined))
    IN [i \in 1..Len(rows) |->
           [ticket |-> rows[i],
            property_name |->
                (CHOOSE p \in d.properties : p.id = rows[i].property_id).name]]

\* the same join without the WHERE: the admin's list
get_all_tickets(d) ==
    Reverse(ById({t \in d.tickets : \E p \in d.properties : p.id = t.property_id}))

\* SELECT * FROM ticket_attachments WHERE ticket_id = ?, newest first
get_attachments_for_ticket(d, ticket_id) ==
    Reverse(ById({a \in d.ticket_attachments : a.ticket_id = ticket_id}))

(***************************************************************************)
(* modules/owner_dashboard.py, modules/owner_tickets.py: what is displayed *)
(***************************************************************************)
\* status_for_row of admin_properties.show, over the columns
\* "Planned Times / Year", "Completed (YTD)", "Pending (YTD)"
admin_status_for_row(planned, completed, pending) ==
    IF planned = 0 THEN "Not configured"
    ELSE IF pending = 0 THEN "On Track"
    ELSE IF completed = 0 THEN "Not Started"
    ELSE "In Progress"

\* status_for_row of owner_dashboard.show
owner_status_for_row(planned, completed, pending) ==
    IF planned = 0 THEN "Not configured"
    ELSE IF pending = 0 THEN "On Track"
    ELSE IF completed = 0 THEN "Not Started"
    ELSE "In Progress"

\* My Dashboard: the property's card, the fulfilment table, the events table
owner_dashboard_view(d, user) ==
    IF user.property_id = NULL
    THEN [error |-> "not linked", prop |-> {}, fulfil |-> <<>>, events |-> <<>>]
    ELSE LET prop == get_property_by_id(d, user.property_id)
         IN IF prop = {}
            THEN [error |-> "not found", prop |-> {}, fulfil |-> <<>>, events |-> <<>>]
            ELSE LET fulfil == get_service_fulfilment_for_property(
                                   d, user.property_id, CurrentYear)
                     events == get_events_for_property(d, user.property_id)
                 IN [error |-> "",
                     prop |-> prop,
                     fulfil |->
                         [i \in 1..Len(fulfil) |->
                             <<fulfil[i].category, fulfil[i].times_per_year,
                               fulfil[i].completed_count, fulfil[i].pending_count,
                               owner_status_for_row(fulfil[i].times_per_year,
                                                    fulfil[i].completed_count,
                                                    fulfil[i].pending_count)>>],
                     events |->
                         [i \in 1..Len(events) |->
                             <<events[i].scheduled_date, events[i].service_category,
                               events[i].status>>]]

\* My Tickets: the table and, per ticket, its details and attachments
owner_tickets_view(d, user) ==
    IF user.id = NULL \/ user.property_id = NULL
    THEN <<>>
    ELSE LET tickets == get_tickets_for_owner(d, user.id)
         IN [i \in 1..Len(tickets) |->
                [id |-> tickets[i].ticket.id,
                 property_name |-> tickets[i].property_name,
                 subject |-> tickets[i].ticket.subject,
                 description |-> tickets[i].ticket.description,
                 status |-> tickets[i].ticket.status,
                 priority |-> tickets[i].ticket.priority,
                 attachments |->
                     LET atts == get_attachments_for_ticket(d, tickets[i].ticket.id)
                     IN [j \in 1..Len(atts) |-> atts[j].filename]]]

(***************************************************************************)
(* modules/admin_quote_builder.py                                          *)
(***************************************************************************)
\* the positions of standard_services in the order of their display_name
catalog_by_display_name == <<3, 4, 2, 6, 5, 1>>

\* region_service_rates JOIN service_catalog of the seeded region, ORDER BY
\* sc.display_name
get_region_service_rates ==
    LET idx == SelectSeq(catalog_by_display_name,
                         LAMBDA i : i <= Len(SeededServices))
    IN [k \in 1..Len(idx) |->
           [service_code |-> standard_services[idx[k]].code,
            display_name |-> standard_services[idx[k]].name,
            default_times_per_year |-> standard_services[idx[k]].times,
            base_price_per_visit |-> region_rates[standard_services[idx[k]].code]]]

\* quote_line_items that prices a line whether or not Include is ticked
quote_line_items_all_priced(cfg) ==
    LET rates == get_region_service_rates
    IN [k \in 1..Len(rates) |->
           [service_code |-> rates[k].service_code,
            service_name |-> rates[k].display_name,
            times_per_year |-> cfg[k].times_per_year,
            price_per_visit |-> cfg[k].price_per_visit,
            annual_total |-> cfg[k].times_per_year * cfg[k].price_per_visit,
            included |-> cfg[k].include]]

\* line_items of the run, from the widgets' values cfg[k] =
\* [times_per_year, price_per_visit, include]
quote_line_items(cfg) ==
    LET rates == get_region_service_rates
    IN [k \in 1..Len(rates) |->
           [service_code |-> rates[k].service_code,
            service_name |-> rates[k].display_name,
            times_per_year |-> cfg[k].times_per_year,
            price_per_visit |-> cfg[k].price_per_visit,
            annual_total |-> IF cfg[k].include
                             THEN cfg[k].times_per_year * cfg[k].price_per_visit
                             ELSE 0,
            included |-> cfg[k].include]]

\* One run of the Quote Builder. clicked is the button whose click started the
\* run ("save", "convert" or "none"). quote_id is a local of the run: it is set
\* only when this run saved a quote, and the Convert button is rendered (and
\* its click looked at) only when quote_id is set.
quote_builder_run(d, clicked, property_name, cfg) ==
    LET line_items == quote_line_items(cfg)
        total_annual == sum([k \in 1..Len(line_items) |-> line_items[k].annual_total])
        submit_save == clicked = "save"
        saved == submit_save /\ total_annual > 0
        d1 == IF saved THEN add_quote(d, property_name, total_annual, line_items) ELSE d
        quote_id == IF saved THEN lastrowid(d1, "quotes") ELSE NULL
        convert_clicked == quote_id # NULL /\ clicked = "convert"
        conv == IF convert_clicked
                THEN convert_quote_to_property(d1, quote_id)
                ELSE [db |-> d1, ret |-> NULL]
    IN [db |-> conv.db, wrote |-> saved \/ convert_clicked,
        quote_id |-> quote_id, convert_called |-> convert_clicked,
        new_prop_id |-> conv.ret]


(***************************************************************************)
(* app.py: login_page, admin_app, owner_app                                *)
(***************************************************************************)
\* login without 'user["password"] != password'
login_any_password(d, username, password) ==
    IF username = <<>> \/ password = <<>>
    THEN NoUser
    ELSE LET found == get_user_by_username(d, strip(username))
         IN IF found = {} THEN NoUser ELSE CHOOSE u \in found : TRUE

\* the user "Login" stores in st.session_state.user (NoUser: none)
login(d, username, password) ==
    IF username = <<>> \/ password = <<>>
    THEN NoUser
    ELSE LET found == get_user_by_username(d, strip(username))
         IN IF found = {} THEN NoUser
            ELSE LET user == CHOOSE u \in found : TRUE
                 IN IF user.password # password THEN NoUser ELSE user

(***************************************************************************)
(* What the users type and pick                                            *)
(***************************************************************************)
UsernameInputs == {<<>>, <<"admin">>, <<" ", "owner1">>, <<"owner2">>, <<"ghost">>}

PasswordInputs == {<<>>, <<"admin123">>, <<"owner123">>}

NameInputs == {<<" ">>, <<"Maple Heights">>, <<" ", "Elm", "Court">>}

AnnualInputs == {<<Dollars(500), Dollars(400), Dollars(300)>>}

CategoryInputs == {<<" ">>, <<" ", "Mowing">>}

TimesInputs == {0, 1}

CostInputs == {Dollars(10)}

AdhocInputs == {<<" ">>, <<"Ad-hoc", "Service">>}

DateInputs == {MkDate(CurrentYear - 1, 12, 31), Today, MkDate(CurrentYear, 12, 1)}

event_statuses == {"Scheduled", "Completed", "Cancelled"}

DescriptionInputs == {<<"Crew", "dispatched">>}

FileInputs == {[filename |-> "photo.png", size |-> 1024],
               [filename |-> "plan.pdf", size |-> max_upload_bytes + 1]}

SubjectInputs == {<<" ">>, <<" ", "Leak", " ">>}

TicketTextInputs == {<<>>, <<"Sprinkler", "broken">>}

QuoteNameInputs == {<<>>, <<"Acme", "Yard">>}

\* the widgets of the line items: times/year 0 or the default, the default
\* price, Include ticked or not
QuoteConfigs ==
    LET rates == get_region_service_rates
    IN {[k \in 1..Len(rates) |->
            [times_per_year |-> IF c[k][1] THEN rates[k].default_times_per_year ELSE 0,
             price_per_visit |-> rates[k].base_price_per_visit,
             include |-> c[k][2]]] :
        c \in [1..Len(rates) -> BOOLEAN \X BOOLEAN]}

(***************************************************************************)
(* The state machine.  ops counts the clicks on buttons (accepted or        *)
(* rejected); lastOp is the last of them.                                  *)
(***************************************************************************)
\* the database after the first run of main(), nobody logged in
Init ==
    /\ db = init_db(EmptyDb)
    /\ session = [s \in Sessions |-> [user |-> NoUser, convert_for |-> NULL]]
    /\ lastOp = NoOp
    /\ ops = 0

\* the end of a click's run(s): the store, the Convert button the last run of
\* the session rendered, the click
Finish(s, out, convert_for, op) ==
    /\ ops < MaxOps
    /\ db' = out.db
    /\ session' = [session EXCEPT ![s].convert_for = convert_for]
    /\ lastOp' = [op EXCEPT !.wrote = out.wrote]
    /\ ops' = ops + 1

\* "Login" on the login page; a success ends with st.rerun().  d0 is the
\* store after the run's init_db, here and below.
LoginClick(s, d0, username, password) ==
    /\ session[s].user = NoUser
    /\ ops < MaxOps
    /\ \E user \in {login(d0, username, password)} :
          /\ db' = IF user # NoUser THEN rerun(d0) ELSE d0
          /\ session' = [session EXCEPT ![s] = [user |-> user, convert_for |-> NULL]]
          /\ lastOp' = Op("login", user, NULL, <<username, password>>)
    /\ ops' = ops + 1

\* "Logout" in the sidebar
LogoutClick(s, d0) ==
    /\ session[s].user # NoUser
    /\ ops < MaxOps
    /\ db' = rerun(d0)
    /\ session' = [session EXCEPT ![s] = [user |-> NoUser, convert_for |-> NULL]]
    /\ lastOp' = Op("logout", session[s].user, NULL, <<>>)
    /\ ops' = ops + 1

\* a run that no button of a form started: a page opened, a dashboard or a
\* report shown, a widget changed
PageLoad(s, d0) ==
    /\ db' = d0
    /\ session' = [session EXCEPT ![s].convert_for = NULL]
    /\ UNCHANGED <<lastOp, ops>>

\* the services the "Add / Edit Service" selectbox offers for a property
\* name, NULL standing for "(New service)"
service_options(d0, selected_name) ==
    {NULL} \cup {sv.id : sv \in {x \in d0.property_services :
                                    x.property_id = name_to_id(d0, selected_name)}}

\* the events the Event Scheduler lists: those of an existing property (JOIN
\* properties), in the date range the admin picks
listed_events(d0) ==
    {e.id : e \in {x \in d0.service_events :
                      \E p \in d0.properties : p.id = x.property_id}}

SaveProperty(s, d0, selected_name, name, annual) ==
    /\ is_admin(session[s].user)
    /\ Finish(s, save_property(d0, selected_name, name, annual[1], annual[2],
                               annual[3]),
              NULL,
              Op("save_property", session[s].user, name_to_id(d0, selected_name),
                 <<name, annual>>))

SaveService(s, d0, selected_name, editing, category, times_per_year, each_time_cost) ==
    /\ is_admin(session[s].user)
    /\ Finish(s, save_service(d0, selected_name, editing, category, times_per_year,
                              each_time_cost),
              NULL,
              Op("save_service", session[s].user, editing, <<>>))

DeleteService(s, d0, editing) ==
    /\ is_admin(session[s].user)
    /\ Finish(s, delete_service(d0, editing), NULL,
              Op("delete_service", session[s].user, editing, <<>>))

AddProperty(s, d0, name, annual) ==
    /\ is_admin(session[s].user)
    /\ Finish(s, add_new_property(d0, name, annual[1], annual[2], annual[3]), NULL,
              Op("add_property", session[s].user, NULL, <<>>))

CreateEvent(s, d0, prop_name, service_id, adhoc_category, date) ==
    /\ is_admin(session[s].user)
    /\ Finish(s, create_event(d0, prop_name, service_id, adhoc_category, date, FALSE),
              NULL,
              Op("create_event", session[s].user, service_id, <<>>))

SaveEventChanges(s, d0, event_id, status, followup_required) ==
    /\ is_admin(session[s].user)
    /\ Finish(s, save_event_changes(d0, event_id, status, followup_required), NULL,
              Op("save_event_changes", session[s].user, event_id,
                 <<status, followup_required>>))

DeleteEvent(s, d0, event_id) ==
    /\ is_admin(session[s].user)
    /\ Finish(s, delete_event(d0, event_id), NULL,
              Op("delete_event", session[s].user, event_id, <<>>))

SendReminder(s, d0, event_id) ==
    /\ is_admin(session[s].user)
    /\ Finish(s, send_reminder(d0, event_id), NULL,
              Op("send_reminder", session[s].user, event_id, <<>>))

SaveTicketChanges(s, d0, ticket_id, new_status, new_priority, new_description) ==
    /\ is_admin(session[s].user)
    /\ Finish(s, save_ticket_changes(d0, ticket_id, new_status, new_priority,
                                     new_description),
              NULL,
              Op("save_ticket_changes", session[s].user, ticket_id,
                 <<new_status, new_priority>>))

AdminUpload(s, d0, ticket_id, file) ==
    /\ is_admin(session[s].user)
    /\ Finish(s, upload_attachment(d0, ticket_id, file.filename, file.size), NULL,
              Op("admin_upload", session[s].user, ticket_id, <<>>))

\* "Save Quote": the run that saved a quote renders the Convert button
SaveQuote(s, d0, property_name, cfg) ==
    /\ is_admin(session[s].user)
    /\ \E run \in {quote_builder_run(d0, "save", property_name, cfg)} :
          Finish(s, run, run.quote_id,
                 Op("save_quote", session[s].user, run.quote_id, <<>>))

\* a click on the Convert button that the session's last run rendered
ConvertClick(s, d0, property_name, cfg) ==
    /\ is_admin(session[s].user)
    /\ session[s].convert_for # NULL
    /\ \E run \in {quote_builder_run(d0, "convert", property_name, cfg)} :
          Finish(s, run, run.quote_id,
                 Op("convert_click", session[s].user, session[s].convert_for,
                    <<run.convert_called, run.new_prop_id>>))

SubmitTicket(s, d0, subject, description, priority) ==
    /\ is_owner(session[s].user)
    /\ Finish(s, submit_ticket(d0, session[s].user, subject, description, priority),
              NULL,
              Op("submit_ticket", session[s].user, NULL, <<subject, description>>))

\* the tickets My Tickets lists for the session's user
own_tickets(s, d0) ==
    IF session[s].user.id = NULL \/ session[s].user.property_id = NULL THEN {}
    ELSE LET listed == get_tickets_for_owner(d0, session[s].user.id)
         IN {listed[i].ticket.id : i \in 1..Len(listed)}

OwnerUpload(s, d0, ticket_id, file) ==
    /\ is_owner(session[s].user)
    /\ Finish(s, upload_attachment(d0, ticket_id, file.filename, file.size), NULL,
              Op("owner_upload", session[s].user, ticket_id, <<>>))

\* the tickets the admin's page lists
all_tickets(d0) ==
    LET listed == get_all_tickets(d0) IN {listed[i].id : i \in 1..Len(listed)}

ticket_description(d0, ticket_id) ==
    (CHOOSE t \in d0.tickets : t.id = ticket_id).description

\* the store as a run of main() finds it after its init_db
Loaded == {init_db(db)}

\* a button is there to click: the session's user is on a page of its role
AdminCanClick(s) == ops < MaxOps /\ is_admin(session[s].user)

OwnerCanClick(s) == ops < MaxOps /\ is_owner(session[s].user)

\* the clicks and loads of a logged-in session s, but for the click on the
\* Convert button of the Quote Builder
PageStepFirst(s) ==
    \/ \E d0 \in Loaded : PageLoad(s, d0)
    \/ AdminCanClick(s) /\ \E d0 \in Loaded :
          \E sel \in {p.name : p \in d0.properties}, n \in NameInputs,
             a \in AnnualInputs : SaveProperty(s, d0, sel, n, a)
    \/ AdminCanClick(s) /\ \E d0 \in Loaded :
          \E sel \in {p.name : p \in d0.properties} :
             \E ed \in service_options(d0, sel), c \in CategoryInputs,
                t \in TimesInputs, p \in CostInputs :
                SaveService(s, d0, sel, ed, c, t, p)
    \/ AdminCanClick(s) /\ \E d0 \in Loaded :
          \E sel \in {p.name : p \in d0.properties} :
             \E ed \in service_options(d0, sel) : DeleteService(s, d0, ed)
    \/ AdminCanClick(s) /\ \E d0 \in Loaded, n \in NameInputs, a \in AnnualInputs :
          AddProperty(s, d0, n, a)
    \/ AdminCanClick(s) /\ \E d0 \in Loaded :
          \E sel \in {p.name : p \in d0.properties} :
             \E sid \in service_options(d0, sel), c \in AdhocInputs,
                dt \in DateInputs : CreateEvent(s, d0, sel, sid, c, dt)
    \/ AdminCanClick(s) /\ \E d0 \in Loaded :
          \E e \in listed_events(d0), st \in event_statuses, f \in BOOLEAN :
             SaveEventChanges(s, d0, e, st, f)
    \/ AdminCanClick(s) /\ \E d0 \in Loaded : \E e \in listed_events(d0) : DeleteEvent(s, d0, e)
    \/ AdminCanClick(s) /\ \E d0 \in Loaded : \E e \in listed_events(d0) : SendReminder(s, d0, e)
    \/ AdminCanClick(s) /\ \E d0 \in Loaded :
          \E t \in all_tickets(d0), st \in admin_ticket_statuses,
             pr \in {"Low", "High"} :
             \E dsc \in DescriptionInputs \cup {ticket_description(d0, t)} :
                SaveTicketChanges(s, d0, t, st, pr, dsc)
    \/ AdminCanClick(s) /\ \E d0 \in Loaded :
          \E t \in all_tickets(d0), f \in FileInputs : AdminUpload(s, d0, t, f)
    \/ AdminCanClick(s) /\ \E d0 \in Loaded, n \in QuoteNameInputs, cfg \in QuoteConfigs :
          SaveQuote(s, d0, n, cfg)
    \/ OwnerCanClick(s) /\ \E d0 \in Loaded, sj \in SubjectInputs, dsc \in TicketTextInputs :
          SubmitTicket(s, d0, sj, dsc, "Medium")
    \/ OwnerCanClick(s) /\ \E d0 \in Loaded :
          \E t \in own_tickets(s, d0), f \in FileInputs : OwnerUpload(s, d0, t, f)

\* the click on the Convert button, there only after a Save Quote
ConvertStep(s) ==
    AdminCanClick(s) /\ \E d0 \in Loaded, n \in QuoteNameInputs, cfg \in QuoteConfigs :
       ConvertClick(s, d0, n, cfg)

\* the clicks and loads of a logged-in session s
PageStep(s) == PageStepFirst(s) \/ ConvertStep(s)

Next ==
    \E s \in Sessions :
        \/ ops < MaxOps /\ \E d0 \in Loaded, u \in UsernameInputs,
                             pw \in PasswordInputs : LoginClick(s, d0, u, pw)
        \/ ops < MaxOps /\ \E d0 \in Loaded : LogoutClick(s, d0)
        \/ PageStep(s)

\* from the first run of main() on: every session starts at the login page
Spec == Init /\ [][Next]_vars

\* the same with the click every session has first: the login, then one click
\* on a page (the Convert button needs a Save Quote before it)
NextLogin ==
    \E s \in Sessions :
        \/ ops < MaxOps /\ \E d0 \in Loaded, u \in UsernameInputs,
                             pw \in PasswordInputs : LoginClick(s, d0, u, pw)
        \/ ops < MaxOps /\ \E d0 \in Loaded : LogoutClick(s, d0)
        \/ PageStepFirst(s)

SpecLogin == Init /\ [][NextLogin]_vars

\* the sessions once the seeded users have logged in, one browser session per
\* user: session 1 the admin, session 2 owner1, ...
InitPages ==
    /\ db = init_db(EmptyDb)
    /\ session = [s \in Sessions |->
                     [user |-> ById(init_db(EmptyDb).users)[s], convert_for |-> NULL]]
    /\ lastOp = NoOp
    /\ ops = 0

NextPages == \E s \in Sessions : PageStep(s)

\* the pages at work: the users stay logged in
SpecPages == InitPages /\ [][NextPages]_vars

(***************************************************************************)
(* db.py as a library: its quote functions called with any arguments       *)
(***************************************************************************)
\* db.add_quote with the line items of any widget values, also none included
AddQuote(property_name, cfg) ==
    /\ ops < MaxOps
    /\ Cardinality(db.quotes) < MaxQuotes
    /\ \E items \in {quote_line_items(cfg)} :
          \E d1 \in {add_quote(db, property_name,
                               sum([k \in 1..Len(items) |-> items[k].annual_total]),
                               items)} :
             /\ db' = d1
             /\ lastOp' = [Op("add_quote", NoUser, lastrowid(d1, "quotes"), <<>>)
                              EXCEPT !.wrote = TRUE]
    /\ ops' = ops + 1
    /\ UNCHANGED session

\* db.convert_quote_to_property with any quote id, saved or not
ConvertQuote(quote_id) ==
    /\ ops < MaxOps
    /\ \E r \in {convert_quote_to_property(db, quote_id)} :
          /\ db' = r.db
          /\ lastOp' = [Op("convert_quote_to_property", NoUser, quote_id, <<r.ret>>)
                           EXCEPT !.wrote = r.ret # NULL]
    /\ ops' = ops + 1
    /\ UNCHANGED session

\* db.init_db
InitDb ==
    /\ db' = init_db(db)
    /\ UNCHANGED <<session, lastOp, ops>>

NextDb ==
    \/ \E n \in QuoteNameInputs, cfg \in QuoteConfigs : AddQuote(n, cfg)
    \/ \E q \in 1..(db.seq["quotes"] + 1) : ConvertQuote(q)
    \/ InitDb

SpecDb == Init /\ [][NextDb]_vars


(***************************************************************************)
(* app_with_evt_nav.py, admin_tickets: its "Save Changes" calls            *)
(* db.update_ticket(id, status, comment), which db.py does not define; it  *)
(* is taken to store the status picked (tickets has no admin_comment).     *)
(***************************************************************************)
\* the choices of "Update Status"
evt_nav_ticket_statuses == {"Open", "In Progress", "Resolved", "Closed"}

update_ticket(d, ticket_id, status) ==
    [d EXCEPT !.tickets =
        {IF t.id = ticket_id THEN [t EXCEPT !.status = status] ELSE t : t \in @}]

\* "Save Changes" of a ticket's expander, then st.rerun()
evt_nav_save_changes(d, ticket_id, new_status) ==
    Outcome(rerun(update_ticket(d, ticket_id, new_status)), TRUE)

EvtNavSaveChanges(s, d0, ticket_id, new_status) ==
    /\ is_admin(session[s].user)
    /\ Finish(s, evt_nav_save_changes(d0, ticket_id, new_status), NULL,
              Op("evt_nav_save_changes", session[s].user, ticket_id, <<new_status>>))

\* the ticket operations of a logged-in session s, of both apps
TicketStep(s) ==
    \/ \E d0 \in Loaded : PageLoad(s, d0)
    \/ AdminCanClick(s) /\ \E d0 \in Loaded :
          \E t \in all_tickets(d0), st \in admin_ticket_statuses, pr \in priorities :
             \E dsc \in DescriptionInputs \cup {ticket_description(d0, t)} :
                SaveTicketChanges(s, d0, t, st, pr, dsc)
    \/ AdminCanClick(s) /\ \E d0 \in Loaded :
          \E t \in {x.id : x \in d0.tickets}, st \in evt_nav_ticket_statuses :
             EvtNavSaveChanges(s, d0, t, st)
    \/ AdminCanClick(s) /\ \E d0 \in Loaded :
          \E t \in all_tickets(d0), f \in FileInputs : AdminUpload(s, d0, t, f)
    \/ OwnerCanClick(s) /\ \E d0 \in Loaded, sj \in SubjectInputs, dsc \in TicketTextInputs :
          \E pr \in priorities : SubmitTicket(s, d0, sj, dsc, pr)
    \/ OwnerCanClick(s) /\ \E d0 \in Loaded :
          \E t \in own_tickets(s, d0), f \in FileInputs : OwnerUpload(s, d0, t, f)

NextTickets == \E s \in Sessions : TicketStep(s)

\* the tickets of the seeded database under the ticket pages of both apps
SpecTickets == InitPages /\ [][NextTickets]_vars


(***************************************************************************)
(* utils/gemini_chat.py.  A call ends by returning a value or by raising   *)
(* an exception; what lies outside the program (the secrets file, the      *)
(* environment variable, the installed library, the reply of the service)  *)
(* is an input of the call.                                                *)
(***************************************************************************)
Returned(v) == [raised |-> FALSE, value |-> v]

Raised(e) == [raised |-> TRUE, value |-> e]

\* st.secrets: no secrets file (every access raises), a file without the
\* key, a file with it; os.getenv("GEMINI_API_KEY"); the import of
\* google.generativeai; model.generate_content and resp.text
GeminiEnvs ==
    [secrets : {"no_file", "no_key", "key"},
     environ : {"no_key", "key"},
     library : {"missing", "installed"},
     reply : {"error", "no_text", "blocked", "text"}]

\* prompt[:200]
prompt_head(prompt) == SubSeq(prompt, 1, IF Len(prompt) < 200 THEN Len(prompt) ELSE 200)

\* the api key found: the try around st.secrets swallows every exception,
\* then os.getenv
gemini_api_key(env) ==
    LET from_secrets == IF env.secrets = "key" THEN "key" ELSE "none"
    IN IF from_secrets # "none" THEN from_secrets
       ELSE IF env.environ = "key" THEN "key" ELSE "none"

\* the body of the second try: import, configure, generate_content, resp.text
gemini_call(prompt, context, env) ==
    IF env.library = "missing" THEN Raised("ImportError")
    ELSE IF env.reply = "error" THEN Raised("APIError")
    ELSE IF env.reply = "blocked" THEN Raised("ValueError")
    ELSE IF env.reply = "no_text"
    THEN Returned(<<"Gemini did not return any text.">>)
    ELSE Returned(strip(<<" ", "Answer", "to">> \o
                        (IF context # <<>> THEN <<"Context:">> \o context ELSE <<>>)
                        \o prompt \o <<" ">>))

\* "except Exception as e: return (...)"
gemini_except(outcome) ==
    IF outcome.raised
    THEN Returned(<<"Gemini call failed.", "Details:", outcome.value>>)
    ELSE outcome

\* get_gemini_answer without the try / except around the call
get_gemini_answer_unguarded(prompt, context, env) ==
    IF gemini_api_key(env) = "none"
    THEN Returned(<<"Gemini API key is not configured yet.">> \o prompt_head(prompt))
    ELSE gemini_call(prompt, context, env)

get_gemini_answer(prompt, context, env) ==
    IF gemini_api_key(env) = "none"
    THEN Returned(<<"Gemini API key is not configured yet.">> \o prompt_head(prompt))
    ELSE gemini_except(gemini_call(prompt, context, env))

QuestionInputs == {<<" ">>, <<" ", "On", "track?">>}

\* "Ask Gemini" of a dashboard: a blank question is refused with a warning;
\* the answer is written to the page, no st.rerun()
ask_gemini(context, q, env) ==
    IF strip(q) = <<>> THEN Returned(<<>>)
    ELSE get_gemini_answer(strip(q), context, env)

\* the context the owner's dashboard hands over: the property's name
owner_gemini_context(d0, user) ==
    LET prop == get_property_by_id(d0, user.property_id)
    IN IF prop = {} THEN <<>> ELSE (CHOOSE p \in prop : TRUE).name

AskGemini(s, d0, context, q, env) ==
    /\ session[s].user # NoUser
    /\ ops < MaxOps
    /\ db' = d0
    /\ session' = [session EXCEPT ![s].convert_for = NULL]
    /\ \E answer \in {ask_gemini(context, q, env)} :
          lastOp' = [Op("ask_gemini", session[s].user, NULL, <<q, env, answer>>)
                        EXCEPT !.wrote = strip(q) # <<>>]
    /\ ops' = ops + 1

GeminiStep(s) ==
    \/ \E d0 \in Loaded : PageLoad(s, d0)
    \/ AdminCanClick(s) /\ \E d0 \in Loaded, q \in QuestionInputs, env \in GeminiEnvs :
          AskGemini(s, d0, <<"Portfolio">>, q, env)
    \/ OwnerCanClick(s) /\ \E d0 \in Loaded, q \in QuestionInputs, env \in GeminiEnvs :
          AskGemini(s, d0, owner_gemini_context(d0, session[s].user), q, env)

NextGemini == \E s \in Sessions : GeminiStep(s)

\* the "Ask Gemini" expanders of the two dashboards
SpecGemini == InitPages /\ [][NextGemini]_vars


(***************************************************************************)
(* utils/email_utils.py and the "Send Quote via Email" button of the       *)
(* Quote Builder.  The secrets file and the SMTP server are inputs.        *)
(***************************************************************************)
\* .streamlit/secrets.toml: absent (every st.secrets access raises), or
\* present with each SMTP_* key missing or set; SMTP_PORT may hold a text
\* int() rejects; the server accepts the message or refuses it
SmtpEnvs ==
    [secrets : {"no_file", "file"},
     host : {"missing", "set"},
     port : {"missing", "number", "malformed"},
     user : {"missing", "set"},
     password : {"missing", "set"},
     server : {"refuses", "accepts"}]

\* how a send ended: the exception raised, if any, and whether
\* smtplib.SMTP(host, port) had been called by then
Sent(raised, exception, connected) == [raised |-> raised, value |-> exception, connected |-> connected]

\* "if not smtp_host or not smtp_user or not smtp_password"
smtp_config_missing(env) ==
    env.host = "missing" \/ env.user = "missing" \/ env.password = "missing"

send_quote_email(env) ==
    IF env.secrets = "no_file" THEN Sent(TRUE, "FileNotFoundError", FALSE)
    ELSE IF env.port = "malformed" THEN Sent(TRUE, "ValueError", FALSE)
    ELSE IF smtp_config_missing(env) THEN Sent(TRUE, "RuntimeError", FALSE)
    ELSE IF env.server = "refuses" THEN Sent(TRUE, "SMTPException", TRUE)
    ELSE Sent(FALSE, "None", TRUE)

CustomerEmailInputs == {<<>>, <<"pat@example.com">>}

\* the try / except Exception around the send: what the page reports
send_quote_click(env) ==
    LET sent == send_quote_email(env)
    IN [sent |-> sent,
        message |-> IF sent.raised THEN "Failed to send email" ELSE "Quote emailed"]

\* the button is drawn only when a customer email was typed; the click's run
\* saves nothing and ends without st.rerun()
SendQuoteEmail(s, d0, customer_email, env) ==
    /\ customer_email # <<>>
    /\ ops < MaxOps
    /\ db' = d0
    /\ session' = [session EXCEPT ![s].convert_for = NULL]
    /\ lastOp' = Op("send_quote_email", session[s].user, NULL,
                    <<customer_email, env, send_quote_click(env)>>)
    /\ ops' = ops + 1

SmtpStep(s) ==
    \/ \E d0 \in Loaded : PageLoad(s, d0)
    \/ AdminCanClick(s) /\ \E d0 \in Loaded, e \in CustomerEmailInputs, env \in SmtpEnvs :
          SendQuoteEmail(s, d0, e, env)

NextSmtp == \E s \in Sessions : SmtpStep(s)

\* the e-mail section of the Quote Builder
SpecSmtp == InitPages /\ [][NextSmtp]_vars


(***************************************************************************)
(* modules/admin_events.py with the event's form kept in the browser: the  *)
(* admin logged in twice; a session's form holds the widgets' values from  *)
(* the run that rendered it until the session's next run                   *)
(***************************************************************************)
\* the day the From Date / To Date inputs are set to: the day of the seeded
\* Scheduled events
FormDay == MkDate(CurrentYear, 5, 1)

\* get_scheduled_events(from_date, to_date) for that day
form_events(d0) ==
    {e \in d0.service_events :
        /\ e.id \in listed_events(d0)
        /\ e.scheduled_date = FormDay}

\* no event form rendered
NoForm == [event_id |-> NULL, loaded_status |-> "none", loaded_followup |-> FALSE, status |-> "none", followup_required |-> FALSE]

\* index=["Scheduled", "Completed", "Cancelled"].index(e["status"]) if
\* e["status"] in [...] else 0
selectbox_default(status) ==
    IF status \in event_statuses THEN status ELSE "Scheduled"

\* the form of event e as a run renders it: each widget at its default
render_event_form(e) ==
    [event_id |-> e.id,
     loaded_status |-> selectbox_default(e.status),
     loaded_followup |-> e.followup_required,
     status |-> selectbox_default(e.status),
     followup_required |-> e.followup_required]

\* a widget that would keep the value the browser holds whatever default the
\* run gives it (a widget with a key)
widget_value_keyed(default_now, default_rendered, held) == held

\* the value a widget without key= returns in a run: the value the browser
\* holds when the run gives the widget the default it was rendered with; a
\* widget given another default is a new widget and returns that default
widget_value(default_now, default_rendered, held) ==
    IF default_now = default_rendered THEN held ELSE default_now

\* two browser sessions of the seeded admin, no form rendered yet
InitForms ==
    /\ db = init_db(EmptyDb)
    /\ session = [s \in Sessions |->
                     [user |-> ById(init_db(EmptyDb).users)[1], convert_for |-> NULL,
                      form |-> NoForm]]
    /\ lastOp = NoOp
    /\ ops = 0

\* a run of the Event Scheduler that renders the form of event e
OpenEventForm(s, d0, e) ==
    /\ is_admin(session[s].user)
    /\ db' = d0
    /\ session' = [session EXCEPT ![s].form = render_event_form(e),
                                  ![s].convert_for = NULL]
    /\ UNCHANGED <<lastOp, ops>>

\* the admin changes widgets of the form: inside st.form no run starts
EditEventForm(s, status, followup_required) ==
    /\ session[s].form # NoForm
    /\ session' = [session EXCEPT ![s].form.status = status,
                                  ![s].form.followup_required = followup_required]
    /\ UNCHANGED <<db, lastOp, ops>>

\* "Save Changes" of the form the session holds: the click's run reads the
\* event again, gives the widgets their defaults of now, calls
\* update_service_event_status with what they return, and st.rerun()
\* renders the form anew
SubmitEventForm(s, d0) ==
    /\ is_admin(session[s].user)
    /\ ops < MaxOps
    /\ \E e \in form_events(d0) :
          /\ e.id = session[s].form.event_id
          /\ LET form == session[s].form
                 status == widget_value(selectbox_default(e.status),
                                        form.loaded_status, form.status)
                 followup_required == widget_value(e.followup_required,
                                                   form.loaded_followup,
                                                   form.followup_required)
                 out == save_event_changes(d0, e.id, status, followup_required)
             IN /\ db' = out.db
                /\ session' =
                      [session EXCEPT
                          ![s].form = render_event_form(
                                          CHOOSE x \in out.db.service_events : x.id = e.id),
                          ![s].convert_for = NULL]
                /\ lastOp' = [Op("save_event_changes", session[s].user, e.id,
                                 <<status, followup_required, form>>)
                                 EXCEPT !.wrote = out.wrote]
    /\ ops' = ops + 1

FormStep(s) ==
    \/ \E d0 \in Loaded : \E e \in form_events(d0) : OpenEventForm(s, d0, e)
    \/ \E st \in event_statuses, f \in BOOLEAN : EditEventForm(s, st, f)
    \/ \E d0 \in Loaded : SubmitEventForm(s, d0)

NextForms == \E s \in Sessions : FormStep(s)

\* the Event Scheduler open in two sessions of the admin
SpecForms == InitForms /\ [][NextForms]_vars


(***************************************************************************)
(* The Price Master page                                                   *)
(***************************************************************************)
PriceCategoryInputs == {<<" ">>, <<"Weed Control Spraying">>, <<" ", "Edging">>}

PriceFrequencyInputs == {<<"3 Times / Year">>, <<"Monthly", " ">>}

PriceCostInputs == {Dollars(90)}

\* the entries the selectbox offers, NULL standing for "(New entry)"
price_options(d0) == {NULL} \cup {e.id : e \in d0.price_master}

\* the category and frequency of the entry picked (none for "(New entry)")
price_key(d0, editing) ==
    IF editing = NULL THEN <<>>
    ELSE LET e == CHOOSE x \in d0.price_master : x.id = editing
         IN <<e.category, e.frequency>>

SavePriceEntry(s, d0, editing, category, frequency, default_cost) ==
    /\ is_admin(session[s].user)
    /\ Finish(s, save_price_entry(d0, editing, category, frequency, default_cost),
              NULL,
              Op("save_price_entry", session[s].user, editing,
                 <<strip(category), strip(frequency)>>))

DeletePriceEntry(s, d0, editing) ==
    /\ is_admin(session[s].user)
    /\ Finish(s, delete_price_entry(d0, editing), NULL,
              Op("delete_price_entry", session[s].user, editing,
                 price_key(d0, editing)))

PriceStep(s) ==
    \/ \E d0 \in Loaded : PageLoad(s, d0)
    \/ AdminCanClick(s) /\ \E d0 \in Loaded :
          \E ed \in price_options(d0), c \in PriceCategoryInputs,
             f \in PriceFrequencyInputs, p \in PriceCostInputs :
             SavePriceEntry(s, d0, ed, c, f, p)
    \/ AdminCanClick(s) /\ \E d0 \in Loaded :
          \E ed \in price_options(d0) : DeletePriceEntry(s, d0, ed)

NextPrice == \E s \in Sessions : PriceStep(s)

\* the Price Master page of the logged-in admin
SpecPrice == InitPages /\ [][NextPrice]_vars


(***************************************************************************)
(* db.py from the empty database file on: init_db and the writes of db.py  *)
(* called one by one, no init_db in between unless it is the call          *)
(***************************************************************************)
\* the database file does not exist yet
InitFile ==
    /\ db = EmptyDb
    /\ session = [s \in Sessions |-> [user |-> NoUser, convert_for |-> NULL]]
    /\ lastOp = NoOp
    /\ ops = 0

\* a write of db.py has turned the store into d1
Wrote(name, id, d1) ==
    /\ ops < MaxOps
    /\ db' = d1
    /\ lastOp' = [Op(name, NoUser, id, <<>>) EXCEPT !.wrote = TRUE]
    /\ ops' = ops + 1
    /\ UNCHANGED session

CallAddProperty(name, annual) ==
    Wrote("add_property", NULL, add_property(db, name, annual[1], annual[2], annual[3]))

CallUpdateProperty(p, annual) ==
    Wrote("update_property", p.id,
          update_property(db, p.id, p.name, annual[1], annual[2], annual[3]))

CallDeletePropertyService(sv) ==
    Wrote("delete_property_service", sv.id, delete_property_service(db, sv.id))

CallDeleteServiceEvent(e) ==
    Wrote("delete_service_event", e.id, delete_service_event(db, e.id))

CallDeletePriceMasterEntry(e) ==
    Wrote("delete_price_master_entry", e.id, delete_price_master_entry(db, e.id))

NextFile ==
    \/ InitDb
    \/ \E n \in {<<"Elm", "Court">>}, a \in AnnualInputs : CallAddProperty(n, a)
    \/ \E p \in db.properties, a \in AnnualInputs : CallUpdateProperty(p, a)
    \/ \E sv \in db.property_services : CallDeletePropertyService(sv)
    \/ \E e \in db.service_events : CallDeleteServiceEvent(e)
    \/ \E e \in db.price_master : CallDeletePriceMasterEntry(e)

SpecFile == InitFile /\ [][NextFile]_vars


(***************************************************************************)
(* Properties                                                              *)
(***************************************************************************)
\* the years the reports are asked for: last year and the current one
ReportYears == {CurrentYear - 1, CurrentYear}

\* the number of events of property pid assigned to service sid, scheduled in
\* year, with status st
CountEvents(pid, sid, year, st) ==
    Cardinality({e \in db.service_events :
                    /\ e.property_id = pid
                    /\ e.service_id = sid
                    /\ YearOf(e.scheduled_date) = year
                    /\ e.status = st})

\* C1: get_service_fulfilment_for_property(P, Y) has exactly one row per
\* property_services row S of P, whose times_per_year is S.times_per_year,
\* whose completed_count and scheduled_count are the numbers of service_events
\* rows with property_id = P, service_id = S.id and year Y of status
\* 'Completed' and 'Scheduled', and whose pending_count is
\* max(times_per_year - completed_count, 0); events that are Cancelled or have
\* no service_id add to no count.
C1_FulfilmentRows ==
    \A p \in db.properties, year \in ReportYears :
        LET rows == get_service_fulfilment_for_property(db, p.id, year)
            services == {sv \in db.property_services : sv.property_id = p.id}
        IN /\ Len(rows) = Cardinality(services)
           /\ \A sv \in services :
                 \E i \in 1..Len(rows) :
                    /\ rows[i].service_id = sv.id
                    /\ \A j \in 1..Len(rows) : rows[j].service_id = sv.id => j = i
                    /\ rows[i].times_per_year = sv.times_per_year
                    /\ rows[i].completed_count = CountEvents(p.id, sv.id, year, "Completed")
                    /\ rows[i].scheduled_count = CountEvents(p.id, sv.id, year, "Scheduled")
                    /\ rows[i].pending_count =
                          Max(sv.times_per_year
                                - CountEvents(p.id, sv.id, year, "Completed"), 0)

\* C1 at work: a service with Completed events this year on a property that
\* also has a Cancelled event of that service, an event without service_id
\* and an event of last year
C1_Witness ==
    \E sv \in db.property_services :
        /\ CountEvents(sv.property_id, sv.id, CurrentYear, "Completed") > 0
        /\ \E e \in db.service_events :
              /\ e.property_id = sv.property_id
              /\ \/ e.service_id = sv.id /\ e.status = "Cancelled"
                 \/ e.service_id = sv.id /\ YearOf(e.scheduled_date) = CurrentYear - 1
        /\ \E e \in db.service_events :
              e.property_id = sv.property_id /\ e.service_id = NULL

\* the per-service rows of property pid for year, as a set of positions
ServiceRows(pid, year) ==
    get_service_fulfilment_for_property(db, pid, year)

\* C2: per property, planned and completed of get_portfolio_fulfilment(Y) are
\* the sums of times_per_year and of completed_count over the rows of
\* get_service_fulfilment_for_property(P, Y).
C2_PortfolioSums ==
    \A year \in ReportYears :
        LET portfolio == get_portfolio_fulfilment(db, year)
        IN /\ Len(portfolio) = Cardinality(db.properties)
           /\ \A p \in db.properties :
                 \E i \in 1..Len(portfolio) :
                    LET rows == ServiceRows(p.id, year)
                        idx == 1..Len(rows)
                    IN /\ portfolio[i].property_id = p.id
                       /\ portfolio[i].planned =
                             SumOver(idx, [k \in idx |-> rows[k].times_per_year])
                       /\ portfolio[i].completed =
                             SumOver(idx, [k \in idx |-> rows[k].completed_count])

\* C2 at work: after a click, a property with two or more services has
\* Completed events this year, and some Completed event of the property
\* belongs to none of its services
C2_Witness ==
    /\ ops > 0
    /\ \E p \in db.properties :
          LET rows == ServiceRows(p.id, CurrentYear)
              idx == 1..Len(rows)
          IN /\ Len(rows) >= 2
             /\ SumOver(idx, [k \in idx |-> rows[k].completed_count]) > 0
             /\ \E e \in db.service_events :
                   /\ e.property_id = p.id
                   /\ e.status = "Completed"
                   /\ \A k \in idx : rows[k].service_id # e.service_id

\* C3: per property, pending of get_portfolio_fulfilment(Y) is the sum of
\* pending_count over the rows of get_service_fulfilment_for_property(P, Y),
\* also when a service has more Completed events than times_per_year.
C3_PendingIsSumOfRows ==
    \A year \in ReportYears :
        LET portfolio == get_portfolio_fulfilment(db, year)
        IN \A i \in 1..Len(portfolio) :
              LET rows == ServiceRows(portfolio[i].property_id, year)
                  idx == 1..Len(rows)
              IN portfolio[i].pending =
                    SumOver(idx, [k \in idx |-> rows[k].pending_count])


\* the quote ids a caller may pass: every id handed out and one never used
QuoteIds == 1..(db.seq["quotes"] + 1)

\* the line items of quote q that are ticked Include
IncludedItems(q) ==
    {li \in db.quote_line_items : li.quote_id = q /\ li.included = 1}

\* service row sv is what convert_quote_to_property makes of line item li for
\* the property pid
ServiceOfItem(sv, li, pid) ==
    /\ sv.property_id = pid
    /\ sv.category = li.service_name
    /\ sv.times_per_year = li.times_per_year
    /\ sv.each_time_cost = li.price_per_visit

\* C4: for a saved quote Q with an included line item,
\* convert_quote_to_property(Q) inserts exactly one properties row, with
\* annual_quote = Q.annual_quote, annual_credited = 0 and annual_cost = 0, and
\* exactly one property_services row per line item with included = 1, none
\* for the others; no existing property or service row changes.
C4_ConvertInserts ==
    \A q \in db.quotes :
        IncludedItems(q.id) # {} =>
            LET after == convert_quote_to_property(db, q.id).db
                new_props == after.properties \ db.properties
                new_svcs == after.property_services \ db.property_services
            IN /\ db.properties \subseteq after.properties
               /\ db.property_services \subseteq after.property_services
               /\ Cardinality(new_props) = 1
               /\ \A p \in new_props :
                     /\ \A old \in db.properties : old.id # p.id
                     /\ p.annual_quote = q.annual_quote
                     /\ p.annual_credited = 0
                     /\ p.annual_cost = 0
                     /\ Cardinality(new_svcs) = Cardinality(IncludedItems(q.id))
                     /\ \A li \in IncludedItems(q.id) :
                           Cardinality({sv \in new_svcs : ServiceOfItem(sv, li, p.id)}) = 1
                     /\ \A sv \in new_svcs :
                           /\ \A old \in db.property_services : old.id # sv.id
                           /\ \E li \in IncludedItems(q.id) : ServiceOfItem(sv, li, p.id)
               /\ \A t \in Tables \ {"properties", "property_services"} :
                     after[t] = db[t]

\* C4 at work: convert_quote_to_property has just made a property of a quote
\* that has a line item ticked Include and one not ticked with visits planned
C4_Witness ==
    /\ lastOp.op = "convert_quote_to_property"
    /\ lastOp.arg[1] # NULL
    /\ \E p \in db.properties : p.id = lastOp.arg[1] /\ p.annual_quote > 0
    /\ IncludedItems(lastOp.id) # {}
    /\ \E li \in db.quote_line_items :
          li.quote_id = lastOp.id /\ li.included = 0 /\ li.times_per_year > 0

\* C5: convert_quote_to_property returns None and leaves every table as it
\* is when the quote id does not exist or the quote has no line item with
\* included = 1; otherwise it returns the id of the property it created.
C5_ConvertReturn ==
    \A q \in QuoteIds :
        LET r == convert_quote_to_property(db, q)
        IN IF (\A row \in db.quotes : row.id # q) \/ IncludedItems(q) = {}
           THEN r.ret = NULL /\ r.db = db
           ELSE /\ r.ret # NULL
                /\ \A old \in db.properties : old.id # r.ret
                /\ \E p \in r.db.properties : p.id = r.ret

\* C5 at work: convert_quote_to_property has just returned None for a saved
\* quote none of whose line items is ticked Include
C5_Witness ==
    /\ lastOp.op = "convert_quote_to_property"
    /\ lastOp.arg[1] = NULL
    /\ \E row \in db.quotes : row.id = lastOp.id
    /\ IncludedItems(lastOp.id) = {}


\* C6: after "Save Quote" stored a quote, a click on "Convert Saved Quote to
\* Property" calls db.convert_quote_to_property with the saved quote's id in
\* the run that click starts.
C6_ConvertClickConverts ==
    lastOp.op = "convert_click" =>
        /\ lastOp.arg[1] = TRUE
        /\ lastOp.arg[2] # NULL

\* the rows of d that are the user's own: the property, its services and
\* events, the user's tickets and their attachments; every other table empty
OwnRows(d, user) ==
    LET own_tickets_of == {t \in d.tickets : t.owner_id = user.id}
    IN [EmptyDb EXCEPT
           !.properties = {p \in d.properties : p.id = user.property_id},
           !.property_services =
               {sv \in d.property_services : sv.property_id = user.property_id},
           !.service_events =
               {e \in d.service_events : e.property_id = user.property_id},
           !.tickets = own_tickets_of,
           !.ticket_attachments =
               {a \in d.ticket_attachments :
                   \E t \in own_tickets_of : t.id = a.ticket_id}]

\* C7: what My Dashboard and My Tickets show an owner is a function of the
\* owner's own property, its services and events, the owner's tickets and
\* their attachments: the views are the same when every other row is removed,
\* so no change to another property's data or to another owner's tickets
\* changes them.
C7_OwnerViewsOwnRowsOnly ==
    \A s \in Sessions :
        is_owner(session[s].user) =>
            \A d \in {db} \cup Loaded :
                /\ owner_dashboard_view(d, session[s].user)
                      = owner_dashboard_view(OwnRows(d, session[s].user),
                                             session[s].user)
                /\ owner_tickets_view(d, session[s].user)
                      = owner_tickets_view(OwnRows(d, session[s].user),
                                           session[s].user)

\* C7 at work: an owner is logged in and sees a dashboard and a ticket, while
\* another owner's ticket has been closed and an event of another property
\* has been cancelled
C7_Witness ==
    \E s \in Sessions :
        /\ is_owner(session[s].user)
        /\ owner_dashboard_view(db, session[s].user).events # <<>>
        /\ owner_tickets_view(db, session[s].user) # <<>>
        /\ \E t \in db.tickets :
              t.owner_id # session[s].user.id /\ t.status = "Closed"
        /\ \E e \in db.service_events :
              e.property_id # session[s].user.property_id /\ e.status = "Cancelled"

\* the step is the click op (the clicks are counted, the loads are not)
Clicked(op) == ops' = ops + 1 /\ lastOp'.op = op

\* C8: a ticket created with the owner's New Ticket form has the property_id
\* of the logged-in user, that user's id as owner_id and created_by_user_id,
\* and status 'Open'; a submission whose subject or description is blank
\* after strip creates no ticket.
C8_OwnerSubmitTicket ==
    [][Clicked("submit_ticket") =>
          \E s \in Sessions :
             /\ session[s].user.id = lastOp'.user
             /\ IF strip(lastOp'.arg[1]) = <<>> \/ strip(lastOp'.arg[2]) = <<>>
                THEN db'.tickets = db.tickets
                ELSE \E t \in db'.tickets :
                        /\ \A old \in db.tickets : old.id # t.id
                        /\ db'.tickets = db.tickets \cup {t}
                        /\ t.property_id = session[s].user.property_id
                        /\ t.owner_id = session[s].user.id
                        /\ t.created_by_user_id = session[s].user.id
                        /\ t.status = "Open"]_vars

\* C8 at work: an owner has just submitted a ticket whose subject had blanks
\* around it, and the ticket was created
C8_Witness ==
    /\ lastOp.op = "submit_ticket"
    /\ lastOp.wrote
    /\ lastOp.arg[1] # strip(lastOp.arg[1])
    /\ \E t \in db.tickets :
          t.id = db.seq["tickets"] /\ t.subject = strip(lastOp.arg[1])


\* touch_service_event_reminder(event) changes nothing but last_reminder_at
\* of that event
TouchChangesReminderOnly ==
    \A e \in db.service_events :
        LET after == touch_service_event_reminder(db, e.id)
        IN /\ \A t \in Tables \ {"service_events"} : after[t] = db[t]
           /\ after.seq = db.seq
           /\ Cardinality(after.service_events) = Cardinality(db.service_events)
           /\ \A x \in db.service_events :
                 \E y \in after.service_events :
                    /\ y = [x EXCEPT !.last_reminder_at = y.last_reminder_at]
                    /\ x.id # e.id => y = x

\* every event and ticket of before is in after with its status
KeepsStatuses(before, after) ==
    /\ \A x \in before.service_events :
          \E y \in after.service_events : y.id = x.id /\ y.status = x.status
    /\ \A x \in before.tickets :
          \E y \in after.tickets : y.id = x.id /\ y.status = x.status

\* add_ticket_attachment and a re-run of init_db keep every status
WritesKeepStatuses ==
    /\ KeepsStatuses(db, init_db(db))
    /\ \A t \in db.tickets, f \in FileInputs :
          KeepsStatuses(db, add_ticket_attachment(db, t.id, f.filename))
    /\ \A e \in db.service_events :
          KeepsStatuses(db, touch_service_event_reminder(db, e.id))

\* a step that changes the status of an existing event is a run that called
\* update_service_event_status for that event, a step that changes the status
\* of an existing ticket one that called update_ticket_status for that ticket
StatusChangesByUpdateOnly ==
    /\ \A e \in db.service_events :
          (\E y \in db'.service_events : y.id = e.id /\ y.status # e.status) =>
              \E d0 \in Loaded, st \in event_statuses, f \in BOOLEAN :
                 db' = rerun(update_service_event_status(d0, e.id, st, f))
    /\ \A t \in db.tickets :
          (\E y \in db'.tickets : y.id = t.id /\ y.status # t.status) =>
              \E d0 \in Loaded, st \in admin_ticket_statuses, pr \in priorities :
                 \E dsc \in DescriptionInputs \cup {t.description} :
                    db' = rerun(update_ticket_status(d0, t.id, st, pr, dsc))

\* C9: the status of an existing service event changes only through
\* update_service_event_status for that event, the status of an existing
\* ticket only through update_ticket_status for that ticket;
\* touch_service_event_reminder changes only last_reminder_at, and it,
\* add_ticket_attachment and a re-run of init_db leave every status as it is
\* (the queries are operators without an effect on the store).
C9_StatusFrame ==
    /\ [](TouchChangesReminderOnly /\ WritesKeepStatuses)
    /\ [][StatusChangesByUpdateOnly]_vars

\* C9 at work: a reminder has just been sent for an event that an earlier
\* Save Changes had cancelled: the event has the reminder and is still
\* Cancelled
C9_Witness ==
    /\ lastOp.op = "send_reminder"
    /\ \E e \in db.service_events :
          /\ e.id = lastOp.id
          /\ e.last_reminder_at = Today
          /\ e.status = "Cancelled"

\* the four values of a ticket's status
TicketStatuses == {"Open", "In Progress", "Resolved", "Closed"}

\* C10: after any sequence of ticket operations (seeding, the owner's Submit
\* Ticket, the admin's Save Ticket Changes) every ticket's status is one of
\* Open, In Progress, Resolved, Closed, and every ticket is created Open: the
\* seeded ones and each one a step adds.
C10_TicketStatuses ==
    /\ [](/\ \A t \in db.tickets : t.status \in TicketStatuses
          /\ ops = 0 => \A t \in db.tickets : t.status = "Open")
    /\ [][\A t \in db'.tickets :
             (\A old \in db.tickets : old.id # t.id) => t.status = "Open"]_vars

\* C10 at work: an owner has just created a ticket, which is Open, after the
\* admin moved a seeded ticket on
C10_Witness ==
    /\ lastOp.op = "submit_ticket"
    /\ lastOp.wrote
    /\ \E t \in db.tickets : t.id = db.seq["tickets"] /\ t.status = "Open"
    /\ \E t \in db.tickets : t.status \in {"In Progress", "Resolved", "Closed"}


\* the clicks the pages of admin_app offer, and those of owner_app
AdminClicks ==
    {"save_property", "save_service", "delete_service", "add_property",
     "create_event", "save_event_changes", "delete_event", "send_reminder",
     "save_ticket_changes", "admin_upload", "save_quote", "convert_click"}

OwnerClicks == {"submit_ticket", "owner_upload"}

\* the stored users a typed username and password name
Credentialed(username, password) ==
    IF username = <<>> \/ password = <<>> THEN {}
    ELSE {u \in db.users : u.username = strip(username) /\ u.password = password}

\* C11: st.session_state.user becomes non-None only through a Login click
\* whose stripped username is a stored user's and whose password is that
\* user's; a failed or incomplete login leaves it None; Logout resets it to
\* None; the clicks of the admin pages happen only in a session whose user
\* has role 'admin', and a logged-in user of any other role gets the owner
\* pages only.
C11_AccessControl ==
    [][/\ \A s \in Sessions :
             session'[s].user # session[s].user =>
                \/ /\ session[s].user = NoUser
                   /\ Clicked("login")
                   /\ session'[s].user \in Credentialed(lastOp'.arg[1], lastOp'.arg[2])
                \/ /\ session'[s].user = NoUser
                   /\ Clicked("logout")
                   /\ lastOp'.user = session[s].user.id
       /\ (Clicked("login") /\ Credentialed(lastOp'.arg[1], lastOp'.arg[2]) = {}) =>
             /\ session' = session
             /\ lastOp'.user = NULL
       /\ Clicked("logout") =>
             \E s \in Sessions :
                /\ session[s].user # NoUser
                /\ session[s].user.id = lastOp'.user
                /\ session'[s].user = NoUser
       /\ (ops' = ops + 1 /\ lastOp'.op \in AdminClicks) =>
             \E s \in Sessions :
                /\ session[s].user # NoUser
                /\ session[s].user.id = lastOp'.user
                /\ session[s].user.role = "admin"
       /\ (ops' = ops + 1 /\ lastOp'.op \in OwnerClicks) =>
             \E s \in Sessions :
                /\ session[s].user # NoUser
                /\ session[s].user.id = lastOp'.user
                /\ session[s].user.role # "admin"]_vars

\* C11 at work: an owner has just logged in with blanks around the username,
\* while another session stays at the login page
C11_Witness ==
    /\ lastOp.op = "login"
    /\ lastOp.arg[1] # strip(lastOp.arg[1])
    /\ \E s \in Sessions :
          /\ session[s].user # NoUser
          /\ session[s].user.id = lastOp.user
          /\ session[s].user.role = "owner"
    /\ \E s \in Sessions : session[s].user = NoUser


\* C16: after the admin deletes a price master entry of category c and
\* frequency f, no entry with that (c, f) is there on a later page load,
\* until an admin adds or edits an entry to (c, f) again.
C16_DeletedPriceStaysDeleted ==
    (lastOp.op = "delete_price_entry" /\ lastOp.wrote) =>
        \A e \in db.price_master :
            ~(e.category = lastOp.arg[1] /\ e.frequency = lastOp.arg[2])


\* C12: init_db called again on a database it has initialised, with nothing
\* in between, adds no row, removes no row and changes no column (updated_at,
\* which it does rewrite, is not among the columns kept here).
C12_InitDbIdempotent ==
    init_db(init_db(db)) = init_db(db)

\* C12 at work: after writes that took rows away or stored other annual
\* values, init_db has something to seed or to recompute
C12_Witness ==
    /\ db # EmptyDb
    /\ lastOp.wrote
    /\ init_db(db).seq # db.seq
    /\ init_db(db).properties # db.properties


\* C13: get_gemini_answer never raises: for every prompt and context, be the
\* API key missing, the library missing, the call failing or the reply
\* without text, it returns a string.
C13_GeminiNeverRaises ==
    /\ lastOp.op = "ask_gemini" =>
          /\ ~lastOp.arg[3].raised
          /\ DOMAIN lastOp.arg[3].value = 1..Len(lastOp.arg[3].value)
    /\ \A env \in GeminiEnvs, q \in QuestionInputs, ctx \in {<<>>, <<"Portfolio">>} :
          LET answer == get_gemini_answer(strip(q), ctx, env)
          IN /\ ~answer.raised
             /\ gemini_api_key(env) = "none" =>
                   Head(answer.value) = "Gemini API key is not configured yet."
             /\ (gemini_api_key(env) # "none" /\ env.library = "installed"
                   /\ env.reply = "text") =>
                   answer.value # <<>> /\ Head(answer.value) = "Answer"

\* C13 at work: a question was asked with a key configured and the library
\* missing, or the call failing: the page shows the failure message
C13_Witness ==
    /\ lastOp.op = "ask_gemini"
    /\ lastOp.wrote
    /\ gemini_api_key(lastOp.arg[2]) = "key"
    /\ lastOp.arg[2].secrets = "no_file"
    /\ gemini_call(strip(lastOp.arg[1]), <<>>, lastOp.arg[2]).raised
    /\ Head(lastOp.arg[3].value) = "Gemini call failed."


\* C14: whenever SMTP_HOST, SMTP_USER or SMTP_PASSWORD is missing, the send
\* raises RuntimeError before any SMTP connection is opened; the Quote
\* Builder reports 'Failed to send email' for every exception and the click
\* changes no database row.
C14_MissingConfigRaisesRuntimeError ==
    lastOp.op = "send_quote_email" =>
       LET env == lastOp.arg[2]
           sent == lastOp.arg[3].sent
       IN /\ (env.secrets = "no_file" \/ smtp_config_missing(env)) =>
                sent.raised /\ sent.value = "RuntimeError" /\ ~sent.connected
          /\ sent.raised <=> lastOp.arg[3].message = "Failed to send email"
          /\ db \in Loaded

\* C14, the part the code keeps: with a required secret missing the send
\* raises before smtplib.SMTP is called, every exception is reported as
\* 'Failed to send email', and the database is the one the run loaded
C14_MissingConfigRaises ==
    lastOp.op = "send_quote_email" =>
       LET env == lastOp.arg[2]
           sent == lastOp.arg[3].sent
       IN /\ (env.secrets = "no_file" \/ smtp_config_missing(env)) =>
                sent.raised /\ ~sent.connected
          /\ sent.raised <=> lastOp.arg[3].message = "Failed to send email"
          /\ db \in Loaded


\* C15: after the admin submits 'Edit Property Details', the page loads
\* that follow show the property's annual_quote, annual_credited and
\* annual_cost equal to the values submitted, as long as that edit is the
\* last operation.
C15_EditedAnnualsPersist ==
    lastOp.op = "save_property" =>
       \A p \in db.properties :
          p.id = lastOp.id =>
             /\ p.annual_quote = lastOp.arg[2][1]
             /\ p.annual_credited = lastOp.arg[2][2]
             /\ p.annual_cost = lastOp.arg[2][3]


\* times_per_year x each_time_cost summed over the property_services rows
\* of property pid in store d
ServiceCost(d, pid) ==
    LET svcs == {sv \in d.property_services : sv.property_id = pid}
    IN SumOver(svcs, [sv \in svcs |-> sv.times_per_year * sv.each_time_cost])

\* C17: at the end of every init_db call each property's annual_cost is the
\* sum of times_per_year x each_time_cost over its property_services rows,
\* its annual_quote is 1.3 x annual_cost and its annual_credited is
\* 0.95 x annual_quote, whatever add_property or update_property stored
\* before.
C17_AnnualsRecomputed ==
    \A p \in init_db(db).properties :
       /\ p.annual_cost = ServiceCost(init_db(db), p.id)
       /\ 10 * p.annual_quote = 13 * p.annual_cost
       /\ 100 * p.annual_credited = 95 * p.annual_quote

\* C17 at work: update_property stored 500 / 400 / 300 for a property with
\* services, init_db ran after it, and the row now holds the recomputed
\* values
C17_Witness ==
    /\ lastOp.op = "update_property"
    /\ db = init_db(db)
    /\ \E p \in db.properties :
          /\ p.id = lastOp.id
          /\ ServiceCost(db, p.id) > 0
          /\ p.annual_cost = ServiceCost(db, p.id)
          /\ p.annual_cost # Dollars(300)
          /\ p.annual_quote # Dollars(500)


\* the status of event id in store d
StatusOf(d, id) == (CHOOSE e \in d.service_events : e.id = id).status

\* Save Changes on a listed event with any of the three values stores that
\* value, whatever the event's status was
SaveSetsAnyStatus ==
    \A id \in listed_events(db), st \in event_statuses, f \in BOOLEAN :
       StatusOf(save_event_changes(db, id, st, f).db, id) = st

\* C18: after any sequence of event operations (seeding, Create Event, Save
\* Changes, Delete Event, Send Reminder) every service event's status is one
\* of Scheduled, Completed, Cancelled; an event that add_service_event
\* creates is Scheduled; Save Changes sets any of the three values from any
\* current value.
C18_EventStatuses ==
    /\ [](\A e \in db.service_events : e.status \in {"Scheduled", "Completed", "Cancelled"})
    /\ []SaveSetsAnyStatus
    /\ [][(Clicked("create_event") /\ lastOp'.wrote) =>
             \E e \in db'.service_events :
                /\ \A old \in db.service_events : old.id # e.id
                /\ db'.service_events = db.service_events \cup {e}
                /\ e.status = "Scheduled"]_vars
    /\ [][Clicked("save_event_changes") =>
             StatusOf(db', lastOp'.id) = lastOp'.arg[1]]_vars

\* C18 at work: an event has been created after a Save Changes cancelled
\* another one: the new event is Scheduled, the other still Cancelled
C18_Witness ==
    /\ lastOp.op = "create_event"
    /\ lastOp.wrote
    /\ \E e \in db.service_events : e.status = "Cancelled"
    /\ \E e \in db.service_events :
          /\ e.id = db.seq["service_events"]
          /\ e.status = "Scheduled"


\* the largest count the status functions are tabulated for
MaxCount == 3

\* the four conditions of the statuses, for a status st given to planned and
\* completed
StatusMatches(st, planned, completed) ==
    /\ st \in {"Not configured", "On Track", "Not Started", "In Progress"}
    /\ st = "Not configured" <=> planned = 0
    /\ st = "On Track" <=> (planned > 0 /\ completed >= planned)
    /\ st = "Not Started" <=> (planned > 0 /\ completed = 0)
    /\ st = "In Progress" <=> (0 < completed /\ completed < planned)

\* C19: get_portfolio_fulfilment gives each property exactly one status:
\* 'Not configured' iff planned = 0, 'On Track' iff planned > 0 and
\* completed >= planned, 'Not Started' iff planned > 0 and completed = 0,
\* 'In Progress' iff 0 < completed < planned; status_for_row of
\* admin_properties and of owner_dashboard are the same function of
\* (planned, completed, pending) on a service row.
C19_StatusFunctions ==
    /\ \A y \in ReportYears :
          LET rows == get_portfolio_fulfilment(db, y)
          IN \A i \in 1..Len(rows) :
                StatusMatches(rows[i].status, rows[i].planned, rows[i].completed)
    /\ \A planned \in 0..MaxCount, completed \in 0..MaxCount :
          /\ StatusMatches(portfolio_status(planned, completed,
                                            Max(planned - completed, 0)),
                           planned, completed)
          /\ \A pending \in 0..MaxCount :
                admin_status_for_row(planned, completed, pending)
                   = owner_status_for_row(planned, completed, pending)
    /\ \A p \in db.properties, y \in ReportYears :
          LET pf == get_service_fulfilment_for_property(db, p.id, y)
          IN \A i \in 1..Len(pf) :
                /\ admin_status_for_row(pf[i].times_per_year, pf[i].completed_count,
                                        pf[i].pending_count)
                      = owner_status_for_row(pf[i].times_per_year,
                                             pf[i].completed_count,
                                             pf[i].pending_count)
                /\ StatusMatches(admin_status_for_row(pf[i].times_per_year,
                                                      pf[i].completed_count,
                                                      pf[i].pending_count),
                                 pf[i].times_per_year, pf[i].completed_count)

\* C19 at work: after the services were edited, the portfolio of the year
\* has a property that is on track with more visits completed than planned
\* next to one that is in progress, and last year's has one not started
C19_Witness ==
    /\ lastOp.op \in {"save_service", "delete_service"}
    /\ LET rows == get_portfolio_fulfilment(db, CurrentYear)
       IN /\ \E i \in 1..Len(rows) :
                rows[i].status = "On Track" /\ rows[i].completed > rows[i].planned
          /\ \E i \in 1..Len(rows) : rows[i].status = "In Progress"
    /\ LET rows == get_portfolio_fulfilment(db, CurrentYear - 1)
       IN \E i \in 1..Len(rows) : rows[i].status = "Not Started"


\* the days the overdue count is asked for: today, the day of the seeded
\* Scheduled events, and the days of the date inputs
OverdueDays == DateInputs \cup {Today, MkDate(CurrentYear, 5, 1)}

\* C20: count_overdue_events(today) is the number of service events with
\* status 'Scheduled' and scheduled_date strictly before today: taking away
\* an event dated today or later, or a Completed or Cancelled one of any
\* date, leaves the count as it is, taking away another one lowers it by
\* one; the events counted are exactly those the due-state rule labels
\* 'Overdue' (a Scheduled event dated today is 'Due today', a later one
\* 'Upcoming', a non-Scheduled one carries its status).
C20_OverdueCount ==
    \A today \in OverdueDays :
       /\ count_overdue_events(db, today)
             = Cardinality({e \in db.service_events : due_state(e, today) = "Overdue"})
       /\ count_overdue_events(EmptyDb, today) = 0
       /\ \A e \in db.service_events :
             /\ count_overdue_events(db, today)
                   = count_overdue_events(delete_service_event(db, e.id), today)
                     + (IF e.status = "Scheduled" /\ e.scheduled_date < today
                        THEN 1 ELSE 0)
             /\ (e.status = "Scheduled" /\ e.scheduled_date = today) =>
                   due_state(e, today) = "Due today"
             /\ (e.status = "Scheduled" /\ e.scheduled_date > today) =>
                   due_state(e, today) = "Upcoming"
             /\ e.status # "Scheduled" => due_state(e, today) = e.status
       /\ overdue_metric(db).value = count_overdue_events(db, Today)

\* C20 at work: the store holds a Scheduled event dated today, a Scheduled
\* one of last year, a Cancelled one and Completed ones of the past, and
\* the dashboard counts the overdue ones only
C20_Witness ==
    /\ lastOp.op \in {"create_event", "save_event_changes"}
    /\ \E e \in db.service_events : e.status = "Scheduled" /\ e.scheduled_date = Today
    /\ \E e \in db.service_events : e.status # "Scheduled" /\ e.scheduled_date < Today
    /\ overdue_metric(db).status_e = "Overdue"
    /\ overdue_metric(db).value
          < Cardinality({e \in db.service_events : e.scheduled_date <= Today})


\* the line items stored for quote q
ItemsOf(q) == {li \in db.quote_line_items : li.quote_id = q.id}

\* times_per_year x price_per_visit summed over the stored line items of
\* quote q with included = 1
IncludedTotal(q) ==
    LET inc == {li \in ItemsOf(q) : li.included = 1}
    IN SumOver(inc, [li \in inc |-> li.times_per_year * li.price_per_visit])

\* the total of the widgets' values cfg: the lines with Include ticked
WidgetTotal(cfg) ==
    sum([k \in 1..Len(cfg) |->
            IF cfg[k].include THEN cfg[k].times_per_year * cfg[k].price_per_visit
            ELSE 0])

\* what a Save Quote click does to the store, for every value of the widgets:
\* nothing while the total is <= 0, else one quote with one row per line, the
\* lines not included stored with included = 0 and annual_total = 0
SaveQuoteStores ==
    \A n \in QuoteNameInputs, cfg \in QuoteConfigs :
       LET run == quote_builder_run(db, "save", n, cfg)
       IN IF WidgetTotal(cfg) <= 0
          THEN run.db = db /\ ~run.wrote
          ELSE /\ Cardinality(run.db.quotes) = Cardinality(db.quotes) + 1
               /\ db.quotes \subseteq run.db.quotes
               /\ db.quote_line_items \subseteq run.db.quote_line_items
               /\ LET new == run.db.quote_line_items \ db.quote_line_items
                  IN /\ Cardinality(new) = Len(cfg)
                     /\ \A k \in 1..Len(cfg) :
                           \E li \in new :
                              /\ li.service_code = quote_line_items(cfg)[k].service_code
                              /\ li.quote_id = run.quote_id
                              /\ li.included = (IF cfg[k].include THEN 1 ELSE 0)
                              /\ ~cfg[k].include => li.annual_total = 0

\* C21: every quote stored through the Quote Builder has annual_quote > 0 and
\* annual_quote equal to the sum of times_per_year x price_per_visit over its
\* line items with included = 1; a line item that is not included is stored
\* with included = 0 and annual_total = 0; a Save Quote click while the total
\* is <= 0 stores no quote and no line item.
C21_QuoteTotals ==
    /\ [](\A q \in db.quotes :
             /\ q.annual_quote > 0
             /\ q.annual_quote = IncludedTotal(q)
             /\ \A li \in ItemsOf(q) :
                   /\ li.included \in {0, 1}
                   /\ li.included = 0 => li.annual_total = 0)
    /\ []SaveQuoteStores
    /\ [][Clicked("save_quote") =>
             \E n \in QuoteNameInputs, cfg \in QuoteConfigs :
                /\ db' = quote_builder_run(init_db(db), "save", n, cfg).db
                /\ lastOp'.wrote <=> WidgetTotal(cfg) > 0]_vars

\* C21 at work: Save Quote has stored a quote with a line that is not
\* included although it has visits and a price, next to an included one
C21_Witness ==
    /\ lastOp.op = "save_quote"
    /\ lastOp.wrote
    /\ \E q \in db.quotes :
          /\ q.id = lastOp.id
          /\ \E li \in ItemsOf(q) :
                li.included = 0 /\ li.times_per_year * li.price_per_visit > 0
          /\ \E li \in ItemsOf(q) : li.included = 1 /\ li.annual_total > 0


====
